---- MODULE Spec2Model ----
(***************************************************************************)
(* Query core of azul: BaseQuery (lib/query/base.js) and the ModelQuery    *)
(* join mixin (lib/query/model_join.js); the belongs-to relation: its      *)
(* derived configuration, fetch of the related object and pre-fetch, and   *)
(* the members it adds to an instance; a relation's definition and the     *)
(* attributes it generates (lib/relations/base.js); the MySQL grammar,     *)
(* translator and adapter (lib/adapters/mysql.js).                         *)
(*                                                                         *)
(* Queries and their promises live in a heap (two parallel sequences, a    *)
(* query's own promise has the query's index).  Each execute() that starts *)
(* an execution creates a promise chain; the callbacks of a chain run one  *)
(* per step, interleaved with every other call the program makes.          *)
(***************************************************************************)
EXTENDS Integers, Sequences, FiniteSets, TLC

VARIABLES
  queries,     \* heap of query objects (index = identity)
  promises,    \* promises[i]: the promise created by init/_take of query i
  chains,      \* promise chains built by execute(), one per started execution
  log,         \* log[i]: what happened on query i, in order (flag, emits, adapter, settle)
  adapterLog,  \* every adapter.execute(sql, args, options) invocation, in order
  calls,       \* every execute()/then() call made by a caller and what it observed
  live,        \* the queries that were handed to a caller
  handed,      \* handed[i]: the statement query i rendered when it was handed out
  lastOp,      \* the last chaining operation: its receiver and the instance returned
  origin,      \* origin[i]: the query that query i was duplicated from (0: the root)
  lineage,     \* lineage[i]: the chaining operations that led from the root to query i
  lastRead,    \* the last read of statement/sql/args: the query, before/after, result
  belongsTo,   \* a belongs-to relation object and the name of its owning model class
  reads,       \* the reads of the relation's derived properties: first values, last read
  load,        \* a fetch of owning rows with its relation pre-fetch, or a fetch of one related object
  article,     \* an Article instance: its attributes, dirty state and relation cache
  executed,    \* the statements the instance's operations handed to the adapter, in order
  operation,   \* the instance's operation in flight, and the outcome of the last one
  mysql,       \* the MySQL adapter: the last predicate translated, the last statement executed
  members      \* the attributes generated for a relation by methods()

queryVars == <<queries, promises, chains, log, adapterLog, calls, live, handed, lastOp, origin,
               lineage, lastRead>>

relationVars == <<belongsTo, reads, load>>

instanceVars == <<article, executed, operation>>

adapterVars == <<mysql>>

methodVars == <<members>>

vars == <<queryVars, relationVars, instanceVars, adapterVars, methodVars>>

-----------------------------------------------------------------------------
(* Bounds *)

MaxQueries == 2
MaxCalls == 2
MaxChained == 4
MaxRows == 3
MaxKey == 2
MaxStatements == 2
MaxTexts == 2
MaxMethods == 3
MaxChars == 3
MaxPrecision == 2
MaxArguments == 2

-----------------------------------------------------------------------------
(* Values *)

Results == {"rows"}
Errors == {"err"}
BaseQueryError == "BaseQuery cannot be used directly."

Pending == [state |-> "pending", value |-> "none"]
Fulfilled(v) == [state |-> "fulfilled", value |-> v]
Rejected(e) == [state |-> "rejected", value |-> e]

Returned(v) == [thrown |-> FALSE, value |-> v]
Thrown(e) == [thrown |-> TRUE, value |-> e]

\* a table name or alias: base + '_j' + n, n = 0 standing for the bare name
Name(s) == [base |-> s, n |-> 0]
Suffixed(s, n) == [base |-> s, n |-> n]

Put(m, k, v) == [x \in (DOMAIN m) \cup {k} |-> IF x = k THEN v ELSE m[x]]

World == [queries |-> queries, promises |-> promises, log |-> log, origin |-> origin]

\* EventEmitter.emit on query q
Emit(w, q, ev, val) ==
  [w EXCEPT !.log[q] = Append(@, [ev |-> ev, val |-> val])]

\* a step of query q that is no notification (flag set, adapter, settle)
Note(w, q, ev, val) ==
  [w EXCEPT !.log[q] = Append(@, [ev |-> ev, val |-> val])]

-----------------------------------------------------------------------------
(* The models and relations the queries are built over *)

tableName(m) ==
  CASE m = "Article" -> Name("articles")
    [] m = "User" -> Name("users")
    [] m = "Comment" -> Name("comments")

Relation(name, model, related) ==
  [_name |-> name, modelClass |-> model, relatedModelClass |-> related]

Relations ==
  { Relation("author", "Article", "User"),
    Relation("editor", "Article", "User"),
    Relation("parent", "Article", "Article"),
    Relation("comments", "Article", "Comment"),
    Relation("author", "Comment", "User") }

joinCondition(relation, baseTable, joinTable) ==
  [rel |-> relation._name, base |-> baseTable, related |-> joinTable]

-----------------------------------------------------------------------------
(* BaseQuery *)

\* init: a fresh query of the given type, with its own pending promise
init(w, type) ==
  LET id == Len(w.queries) + 1
      q == [type |-> type,
            _adapter |-> "none",
            _executed |-> FALSE,
            _promise |-> id,
            _resolve |-> id,
            _model |-> "none",
            _joins |-> <<>>,
            _joinedRelations |-> <<>>,
            _joinedRelationsId |-> 0,
            _transaction |-> "none"]
  IN [w |-> [queries |-> Append(w.queries, q),
             promises |-> Append(w.promises, Pending),
             log |-> Append(w.log, <<>>),
             origin |-> Append(w.origin, 0)],
      ret |-> id]

\* type.new(): an instance of the type on which no init has run; its fields
\* are unset (an unset flag is falsy, an unset promise is no promise)
new(w, type) ==
  LET id == Len(w.queries) + 1
      q == [type |-> type,
            _adapter |-> "none",
            _executed |-> FALSE,
            _promise |-> 0,
            _resolve |-> 0,
            _model |-> "none",
            _joins |-> <<>>,
            _joinedRelations |-> <<>>,
            _joinedRelationsId |-> 0,
            _transaction |-> "none"]
  IN [w |-> [queries |-> Append(w.queries, q),
             promises |-> Append(w.promises, Pending),
             log |-> Append(w.log, <<>>),
             origin |-> Append(w.origin, 0)],
      ret |-> id]

\* a _take that keeps the original's execution state instead of resetting it
BaseQuery_take_shared(w, self, orig) ==
  [w EXCEPT !.queries[self]._adapter = w.queries[orig]._adapter,
            !.queries[self]._executed = w.queries[orig]._executed,
            !.queries[self]._promise = w.queries[orig]._promise,
            !.queries[self]._resolve = w.queries[orig]._resolve]

\* BaseQuery._take: copy the adapter, reset the flag, make a new promise
BaseQuery_take(w, self, orig) ==
  [w EXCEPT !.queries[self]._adapter = w.queries[orig]._adapter,
            !.queries[self]._executed = FALSE,
            !.queries[self]._promise = self,
            !.queries[self]._resolve = self,
            !.promises[self] = Pending]

\* Transaction mixin _take: _super, then the duplicate is in the transaction
\* the original is in
Transaction_take(w, self, orig) ==
  LET w1 == BaseQuery_take(w, self, orig)
  IN [w1 EXCEPT !.queries[self]._transaction = w.queries[orig]._transaction]

\* Join mixin _take: the join list is carried over to the duplicate
Join_take(w, self, orig) ==
  LET w1 == Transaction_take(w, self, orig)
  IN [w1 EXCEPT !.queries[self]._model = w.queries[orig]._model,
                !.queries[self]._joins = w.queries[orig]._joins]

\* a _take that assigns the original's map itself: this._joinedRelations =
\* orig._joinedRelations
ModelJoin_take_shared(w, self, orig) ==
  LET w1 == Join_take(w, self, orig)
  IN [w1 EXCEPT !.queries[self]._joinedRelations = w.queries[orig]._joinedRelations,
                !.queries[self]._joinedRelationsId = w.queries[orig]._joinedRelationsId]

\* model_join _take: _super, then _.clone(orig._joinedRelations): a new map
\* object (identified by the query that made it) with the original's entries
ModelJoin_take(w, self, orig) ==
  LET w1 == Join_take(w, self, orig)
  IN [w1 EXCEPT !.queries[self]._joinedRelations = w.queries[orig]._joinedRelations,
                !.queries[self]._joinedRelationsId = self]

\* obj._joinedRelations[name] = details: a write to the map object that self
\* holds, seen by every query that holds the same object
WriteJoined(w, self, name, details) ==
  [w EXCEPT !.queries =
     [i \in DOMAIN w.queries |->
        IF \/ i = self
           \/ w.queries[i]._joinedRelationsId = w.queries[self]._joinedRelationsId
        THEN [w.queries[i] EXCEPT !._joinedRelations = Put(@, name, details)]
        ELSE w.queries[i]]]

_take(w, self, orig) ==
  IF w.queries[orig].type = "ModelQuery"
  THEN ModelJoin_take(w, self, orig)
  ELSE Transaction_take(w, self, orig)

\* a _dup that hands back the receiver itself
_dup_this(w, q) ==
  [w |-> w, ret |-> q]

\* BaseQuery._dup: this.__identity__.new(), then dup._take(this)
\* (the 'dup' notification has no listener in the query core and is not logged)
_dup(w, q) ==
  LET made == new(w, w.queries[q].type)
      taken == _take(made.w, made.ret, q)
  IN [w |-> [taken EXCEPT !.origin[made.ret] = q], ret |-> made.ret]

clone(w, q) == _dup(w, q)

\* the mixins of the query types, in the order they were mixed in
__mixins__(type) ==
  CASE type = "BaseQuery" -> <<"Transaction", "Transform">>
    [] type = "ModelQuery" -> <<"Transaction", "Transform", "Join", "ModelJoin">>

\* the mixins that define an init of their own (mixin.hasOwnProperty('init'))
MixinsWithInit == {"Transaction", "Join"}

\* _.difference(array, values): the elements of array not in values, in order
difference(array, values) ==
  SelectSeq(array, LAMBDA m : \A i \in 1..Len(values) : values[i] # m)

\* mixin.init.call(query)
mixinInit(w, query, mixin) == Note(w, query, "init", mixin)

RECURSIVE initEach(_, _, _, _)
\* newMixins.forEach(...) from index i on
initEach(w, query, newMixins, i) ==
  IF i > Len(newMixins) THEN w
  ELSE initEach(IF newMixins[i] \in MixinsWithInit
                THEN mixinInit(w, query, newMixins[i]) ELSE w,
                query, newMixins, i + 1)

\* BaseQuery._create: the override point, empty
BaseQuery_create(w, self, arguments) == w

\* the _create of the model query type: binds the model it was given
ModelQuery_create(w, self, arguments) ==
  [BaseQuery_create(w, self, arguments) EXCEPT !.queries[self]._model = arguments[1]]

\* model_join _create: _super, then an empty map of joined relations
ModelJoin_create(w, self, arguments) ==
  [ModelQuery_create(w, self, arguments) EXCEPT !.queries[self]._joinedRelations = <<>>,
                                                !.queries[self]._joinedRelationsId = self]

_create(w, self, type, arguments) ==
  IF type = "ModelQuery" THEN ModelJoin_create(w, self, arguments)
  ELSE BaseQuery_create(w, self, arguments)

CreateArg(arguments) == IF arguments = <<>> THEN "none" ELSE arguments[1]

\* a _spawn that applies _create before it takes the parent's state
_spawn_createFirst(w, q, type, arguments) ==
  LET newMixins == difference(__mixins__(type), __mixins__(w.queries[q].type))
      made == new(w, type)
      query == made.ret
      w1 == initEach(Note(made.w, query, "new", type), query, newMixins, 1)
      w2 == Note(_create(w1, query, type, arguments), query, "_create", CreateArg(arguments))
      w3 == Note(_take(w2, query, q), query, "_take", w.queries[q].type)
  IN [w |-> [w3 EXCEPT !.origin[query] = q], ret |-> query]

\* BaseQuery._spawn: type.new(), init of the new mixins, the parent type's
\* _take, the target type's _create
\* (the 'spawn' notification has no listener in the query core and is not logged)
_spawn(w, q, type, arguments) ==
  LET currentMixins == __mixins__(w.queries[q].type)
      newMixins == difference(__mixins__(type), currentMixins)
      made == new(w, type)
      query == made.ret
      w1 == initEach(Note(made.w, query, "new", type), query, newMixins, 1)
      w2 == Note(_take(w1, query, q), query, "_take", w.queries[q].type)
      w3 == Note(_create(w2, query, type, arguments), query, "_create", CreateArg(arguments))
  IN [w |-> [w3 EXCEPT !.origin[query] = q], ret |-> query]

\* the statement a concrete (model) query renders: its table and join list
Render(qr) ==
  [sql |-> [from |-> tableName(qr._model), joins |-> qr._joins],
   args |-> <<>>]

\* a _statement that renders on the base type too
_statement_renders(qr) ==
  Returned([sql |-> [from |-> Name("none"), joins |-> qr._joins], args |-> <<>>])

\* BaseQuery._statement throws; the concrete query type overrides it
_statement(qr) ==
  IF qr.type = "BaseQuery" THEN Thrown(BaseQueryError) ELSE Returned(Render(qr))

statement(qr) == _statement(qr)

sql(qr) ==
  IF statement(qr).thrown THEN statement(qr) ELSE Returned(statement(qr).value.sql)

args(qr) ==
  IF statement(qr).thrown THEN statement(qr) ELSE Returned(statement(qr).value.args)

\* reading one of the three derived properties of a query
ReadOf(qr, prop) ==
  CASE prop = "statement" -> statement(qr)
    [] prop = "sql" -> sql(qr)
    [] prop = "args" -> args(qr)

-----------------------------------------------------------------------------
(* ModelQuery joins *)

\* the association string split on '.', as the key paths of its prefixes:
\* 'comments.author' visits 'comments', then 'comments.author'
_associationForEach(association) ==
  [i \in 1..Len(association) |-> SubSeq(association, 1, i)]

RECURSIVE ModelAt(_, _)
\* the model an association path leads to, starting from model m
ModelAt(m, path) ==
  IF path = <<>> THEN m
  ELSE LET r == CHOOSE x \in Relations : x.modelClass = m /\ x._name = Head(path)
       IN ModelAt(r.relatedModelClass, Tail(path))

\* the relation of the last segment of a key path, on the model the path reaches
_lookupRelation(qr, assoc) ==
  LET m == ModelAt(qr._model, SubSeq(assoc, 1, Len(assoc) - 1))
  IN CHOOSE x \in Relations : x.modelClass = m /\ x._name = assoc[Len(assoc)]

\* Join mixin join(table, type, condition): a duplicate with the join appended
Join_join(w, q, joinArg, type, condition) ==
  LET d == _dup(w, q)
  IN [w |-> [d.w EXCEPT !.queries[d.ret]._joins =
                 Append(@, [table |-> joinArg.table, as |-> joinArg.as,
                            type |-> type, on |-> condition])],
      ret |-> d.ret]

\* a name check that looks at the primary table only
_tableInQuery_primaryOnly(qr, name) == name = tableName(qr._model)

_tableInQuery(qr, name) ==
  \/ name = tableName(qr._model)
  \/ \E k \in DOMAIN qr._joinedRelations : qr._joinedRelations[k].as = name

RECURSIVE uniqueAliasLoop(_, _, _, _)
\* while (this._tableInQuery(alias)) { alias = name + '_j' + n; n += 1; }
uniqueAliasLoop(qr, name, alias, n) ==
  IF _tableInQuery(qr, alias)
  THEN uniqueAliasLoop(qr, name, Suffixed(name, n), n + 1)
  ELSE alias

\* an alias search that suffixes at once: name_j1 is the first candidate
_uniqueTableAlias_suffixFirst(qr, name) ==
  uniqueAliasLoop(qr, name, Suffixed(name, 1), 2)

_uniqueTableAlias(qr, name) == uniqueAliasLoop(qr, name, Name(name), 1)

RECURSIVE join(_, _, _)

\* a _joinRelation that builds every condition on the relation's own table
_joinRelation_rawBase(w, q, name, through, relation) ==
  LET qr == w.queries[q]
      relatedTable == tableName(relation.relatedModelClass)
      baseTable == tableName(relation.modelClass)
      aliased == _tableInQuery(qr, relatedTable)
      joinTable == IF aliased THEN _uniqueTableAlias(qr, relation._name)
                   ELSE relatedTable
      joinArg == [table |-> relatedTable, as |-> joinTable]
      condition == joinCondition(relation, baseTable, joinTable)
      d == join(w, q, <<joinArg, "inner", condition>>)
  IN [w |-> WriteJoined(d.w, d.ret, name, [as |-> joinTable, relation |-> relation]),
      ret |-> d.ret]

_joinRelation(w, q, name, through, relation) ==
  LET qr == w.queries[q]
      relatedTable == tableName(relation.relatedModelClass)
      hasThrough == through # <<>> /\ through \in DOMAIN qr._joinedRelations
      baseTable == IF hasThrough THEN qr._joinedRelations[through].as
                   ELSE tableName(relation.modelClass)
      aliased == _tableInQuery(qr, relatedTable)
      joinTable == IF aliased THEN _uniqueTableAlias(qr, relation._name)
                   ELSE relatedTable
      joinArg == [table |-> relatedTable, as |-> joinTable]
      condition == joinCondition(relation, baseTable, joinTable)
      d == join(w, q, <<joinArg, "inner", condition>>)
  IN [w |-> WriteJoined(d.w, d.ret, name, [as |-> joinTable, relation |-> relation]),
      ret |-> d.ret]

RECURSIVE joinEach(_, _, _, _, _)
\* the callback of _joinAssociation applied to the key paths from index i on
joinEach(w, self, dup, assocs, i) ==
  IF i > Len(assocs) THEN [w |-> w, ret |-> dup]
  ELSE LET through == IF i = 1 THEN <<>> ELSE assocs[i - 1]
           r == _joinRelation(w, dup, assocs[i], through,
                              _lookupRelation(w.queries[self], assocs[i]))
       IN joinEach(r.w, self, r.ret, assocs, i + 1)

_joinAssociation(w, q, association) ==
  LET d == _dup(w, q)
  IN joinEach(d.w, q, d.ret, _associationForEach(association), 1)

\* a join that looks its first argument up among the relations however many
\* arguments are given, and records the relation it finds
join_byName(w, q, arguments) ==
  IF Len(arguments) = 1
  THEN _joinAssociation(w, q, arguments[1])
  ELSE LET d == Join_join(w, q, arguments[1], arguments[2], arguments[3])
           found == {x \in Relations : /\ x.modelClass = w.queries[q]._model
                                       /\ Name(x._name) = arguments[1].table}
       IN IF found = {} THEN d
          ELSE [w |-> WriteJoined(d.w, d.ret, <<arguments[1].table.base>>,
                                  [as |-> arguments[1].as,
                                   relation |-> CHOOSE x \in found : TRUE]),
                ret |-> d.ret]

\* model_join join: one argument is an association, more are a plain join
join(w, q, arguments) ==
  IF Len(arguments) = 1
  THEN _joinAssociation(w, q, arguments[1])
  ELSE Join_join(w, q, arguments[1], arguments[2], arguments[3])

-----------------------------------------------------------------------------
(* Execution *)

\* BaseQuery._execute: render the statement, then build the chain
\* Transaction mixin client(): the client of the transaction the query is
\* in, none outside a transaction
client(qr) ==
  IF qr._transaction = "none" THEN "none" ELSE [of |-> qr._transaction]

\* an _execute that builds the chain first and leaves the rendering of the
\* statement to the adapter step
_execute_rendersLate(w, ch, q) ==
  LET st == statement(w.queries[q])
  IN IF st.thrown
     THEN [thrown |-> TRUE, value |-> st.value, chains |-> ch,
           w |-> Note(w, q, "render", "thrown")]
     ELSE [thrown |-> FALSE, value |-> "chain", w |-> w,
           chains |-> Append(ch, [q |-> q, pc |-> "bound", statement |-> st.value,
                                  resolve |-> w.queries[q]._resolve,
                                  resp |-> Pending])]

\* var statement = this.statement (the one rendering), then
\* bind() -> tap(emit 'execute') -> then(adapterExecute) -> tap(emit 'rawResult')
_execute(w, ch, q) ==
  LET st == statement(w.queries[q])
  IN IF st.thrown
     THEN [thrown |-> TRUE, value |-> st.value, chains |-> ch,
           w |-> Note(w, q, "render", "thrown")]
     ELSE [thrown |-> FALSE, value |-> "chain",
           w |-> Note(w, q, "render", "statement"),
           chains |-> Append(ch, [q |-> q, pc |-> "bound", statement |-> st.value,
                                  resolve |-> w.queries[q]._resolve,
                                  resp |-> Pending])]

\* a body of execute() that clears the flag again when no chain was started
startExecution_retry(w, ch, q) ==
  LET w1 == Note([w EXCEPT !.queries[q]._executed = TRUE], q, "executed", "true")
      ex == _execute(w1, ch, q)
  IN IF ex.thrown
     THEN [w |-> [ex.w EXCEPT !.queries[q]._executed = FALSE], chains |-> ex.chains,
           follows |-> 0, out |-> Rejected(ex.value)]
     ELSE [w |-> ex.w, chains |-> ex.chains, follows |-> w1.queries[q]._promise,
           out |-> Pending]

\* the body of execute() taken when the query was not yet executed
startExecution(w, ch, q) ==
  LET w1 == Note([w EXCEPT !.queries[q]._executed = TRUE], q, "executed", "true")
      ex == _execute(w1, ch, q)
  IN IF ex.thrown
     THEN [w |-> ex.w, chains |-> ex.chains, follows |-> 0, out |-> Rejected(ex.value)]
     ELSE [w |-> ex.w, chains |-> ex.chains, follows |-> w1.queries[q]._promise,
           out |-> Pending]

\* an execute() that starts an execution on every call
execute_unguarded(w, ch, q) == startExecution(w, ch, q)

\* BaseQuery.execute (wrapped by Promise.method: a throw rejects the returned promise)
execute(w, ch, q) ==
  IF ~w.queries[q]._executed
  THEN startExecution(w, ch, q)
  ELSE [w |-> w, chains |-> ch, follows |-> w.queries[q]._promise, out |-> Pending]

\* a then that attaches the handlers to the promise without calling execute()
then_deferred(w, ch, q) ==
  [w |-> w, chains |-> ch, follows |-> w.queries[q]._promise, out |-> Pending]

\* BaseQuery.then: execute().then(fulfilledHandler, rejectedHandler)
then(w, ch, q) == execute(w, ch, q)

\* resolve/reject of promise p: only a pending promise changes
Settle(ps, p, outcome) ==
  IF ps[p].state = "pending" THEN [ps EXCEPT ![p] = outcome] ELSE ps

-----------------------------------------------------------------------------
(* Belongs-to relation: names and the derived configuration *)

\* a string, as the words it is made of and the way they are written:
\* "plain" (one lower-case word), "snake" (lead_author), "camel" (leadAuthor),
\* "pascal" (LeadAuthor), "mixed" (leadAuthor_id); plural marks a plural form
Str(style, words) == [style |-> style, words |-> words, plural |-> FALSE]

undefined == [style |-> "undefined", words |-> <<>>, plural |-> FALSE]

\* what || and ! test
Truthy(s) == s.style # "undefined" /\ s.words # <<>>

Cased(style, s) ==
  [style |-> IF Len(s.words) = 1 THEN "plain" ELSE style,
   words |-> s.words, plural |-> s.plural]

\* _.camelCase
camelCase(s) == Cased("camel", s)

\* _.snakeCase
snakeCase(s) == Cased("snake", s)

\* inflection.pluralize
pluralize(s) == [s EXCEPT !.plural = TRUE]

\* name + '_id'
WithIdSuffix(s) ==
  [style |-> IF s.style = "plain" THEN "snake" ELSE "mixed",
   words |-> Append(s.words, "id"), plural |-> s.plural]

RelationProperties == {"inverse", "primaryKey", "foreignKey", "foreignKeyProperty"}

RelationOptions == {"inverse", "primaryKey", "foreignKey"}

\* BaseRelation.init: name and options stored, nothing derived yet
BelongsTo(name, options) ==
  [_name |-> name, _options |-> options,
   _inverse |-> undefined, _primaryKey |-> undefined,
   _foreignKey |-> undefined, _foreignKeyProperty |-> undefined]

\* an inverse that is derived anew on every read
inverse_rederived(b) ==
  LET v == IF Truthy(b.relation._options.inverse) THEN b.relation._options.inverse
           ELSE pluralize(camelCase(b.modelClassName))
  IN [b |-> [b EXCEPT !.relation._inverse = v], value |-> v]

\* inverse: the option, or the pluralized camel-cased name of the model class
inverse(b) ==
  IF ~Truthy(b.relation._inverse)
  THEN LET inv == camelCase(b.modelClassName)
           v == IF Truthy(b.relation._options.inverse) THEN b.relation._options.inverse
                ELSE pluralize(inv)
       IN [b |-> [b EXCEPT !.relation._inverse = v], value |-> v]
  ELSE [b |-> b, value |-> b.relation._inverse]

\* primaryKey: the option, or 'id'
primaryKey(b) ==
  IF ~Truthy(b.relation._primaryKey)
  THEN LET v == IF Truthy(b.relation._options.primaryKey)
                THEN b.relation._options.primaryKey
                ELSE Str("plain", <<"id">>)
       IN [b |-> [b EXCEPT !.relation._primaryKey = v], value |-> v]
  ELSE [b |-> b, value |-> b.relation._primaryKey]

\* a foreign key whose default is the camel-cased name with its suffix
foreignKey_camelDefault(b) ==
  IF ~Truthy(b.relation._foreignKey)
  THEN LET v == IF Truthy(b.relation._options.foreignKey)
                THEN b.relation._options.foreignKey
                ELSE camelCase(WithIdSuffix(b.relation._name))
       IN [b |-> [b EXCEPT !.relation._foreignKey = v], value |-> v]
  ELSE [b |-> b, value |-> b.relation._foreignKey]

\* foreignKey: the option, or _.snakeCase(this._name + '_id')
foreignKey(b) ==
  IF ~Truthy(b.relation._foreignKey)
  THEN LET v == IF Truthy(b.relation._options.foreignKey)
                THEN b.relation._options.foreignKey
                ELSE snakeCase(WithIdSuffix(b.relation._name))
       IN [b |-> [b EXCEPT !.relation._foreignKey = v], value |-> v]
  ELSE [b |-> b, value |-> b.relation._foreignKey]

\* foreignKeyProperty: _.camelCase(this.foreignKey)
foreignKeyProperty(b) ==
  IF ~Truthy(b.relation._foreignKeyProperty)
  THEN LET fk == foreignKey(b)
           v == camelCase(fk.value)
       IN [b |-> [fk.b EXCEPT !.relation._foreignKeyProperty = v], value |-> v]
  ELSE [b |-> b, value |-> b.relation._foreignKeyProperty]

\* a read of one of the four derived properties
RelationRead(b, prop) ==
  CASE prop = "inverse" -> inverse(b)
    [] prop = "primaryKey" -> primaryKey(b)
    [] prop = "foreignKey" -> foreignKey(b)
    [] prop = "foreignKeyProperty" -> foreignKeyProperty(b)

-----------------------------------------------------------------------------
(* Belongs-to relation: fetch of the related object and pre-fetch *)

\* a null foreign key, and a relation that was not loaded
Null == 0
Unloaded == -1

Keys == 1..MaxKey

NoError == [kind |-> "none", type |-> "none", column |-> undefined, key |-> Null]

\* 'Found no <related type> with <foreign key column> <key>'
LookupError(type, column, key) ==
  [kind |-> "lookup", type |-> type, column |-> column, key |-> key]

AdapterError == [kind |-> "adapter", type |-> "none", column |-> undefined, key |-> Null]

Unsettled == [state |-> "pending", error |-> NoError]
Resolved == [state |-> "fulfilled", error |-> NoError]
Failing(e) == [state |-> "rejected", error |-> e]

RECURSIVE uniq(_)
\* the distinct values of a list, in the order of their first occurrence
uniq(seq) ==
  IF seq = <<>> THEN <<>>
  ELSE LET front == uniq(SubSeq(seq, 1, Len(seq) - 1))
           x == seq[Len(seq)]
       IN IF \E i \in 1..Len(front) : front[i] = x THEN front ELSE Append(front, x)

\* keys bound with their duplicates
prefetchKeys_repeated(rows) == SelectSeq(rows, LAMBDA k : k # Null)

\* the keys a pre-fetch asks for: the foreign keys of the instances, each once,
\* null left out
prefetchKeys(rows) == uniq(SelectSeq(rows, LAMBDA k : k # Null))

Select(table, column, keys, limit, after) ==
  [table |-> table, column |-> column, keys |-> keys, limit |-> limit,
   issuedAfter |-> after]

\* a pre-fetch that fetches the related object of each instance by itself
prefetch_perInstance(l, b) ==
  LET rows == SelectSeq(l.rows, LAMBDA k : k # Null)
  IN [i \in 1..Len(rows) |->
        Select("users", primaryKey(b).value, <<rows[i]>>, 1, l.completed)]

\* relation.prefetch(instances): the statements it issues, (at most) one
\* select of the related rows whose primary key is among the keys
prefetch(l, b) ==
  LET keys == prefetchKeys(l.rows)
  IN IF keys = <<>> THEN <<>>
     ELSE <<Select("users", primaryKey(b).value, keys, Len(keys), l.completed)>>

\* a validation that accepts an instance without its related object
validateFetchedObjects_lenient(key, found, b) == NoError

\* a related object must have been found for a foreign key that is set
validateFetchedObjects(key, found, b) ==
  IF key # Null /\ ~found
  THEN LookupError("User", foreignKey(b).value, key)
  ELSE NoError

\* relation.associatePrefetchResults(instances, grouped): each instance gets
\* the fetched object whose primary key is its foreign key; the first
\* instance that fails validation fails the fetch
associatePrefetchResults(l, b) ==
  LET bad == {i \in 1..Len(l.rows) :
                validateFetchedObjects(l.rows[i], l.rows[i] \in l.related, b) # NoError}
  IN IF bad # {}
     THEN LET i == CHOOSE i \in bad : \A j \in bad : i <= j
          IN [l EXCEPT !.pc = "settled",
                       !.author = [j \in 1..Len(l.rows) |->
                                     IF j < i THEN l.rows[j] ELSE Unloaded],
                       !.outcome = Failing(validateFetchedObjects(l.rows[i], FALSE, b))]
     ELSE [l EXCEPT !.pc = "settled",
                    !.author = [j \in 1..Len(l.rows) |->
                                  IF l.rows[j] \in l.related THEN l.rows[j] ELSE Null],
                    !.outcome = Resolved]

\* Article.objects.with('author').fetch() over the rows of table, or
\* article.fetchAuthor() on an instance with the foreign key given
Load(kind, table, instance, users) ==
  [kind |-> kind, pc |-> "start", table |-> table, instance |-> instance,
   users |-> users, statements |-> <<>>, completed |-> 0, rows |-> <<>>,
   related |-> {}, author |-> <<>>, outcome |-> Unsettled]

-----------------------------------------------------------------------------
(* Actions: an eager load, a fetch of the related object, and the adapter *)

\* the primary statement of the fetch is issued
IssuePrimary ==
  /\ load.pc = "start"
  /\ load.kind = "with"
  /\ load' = [load EXCEPT !.pc = "primary_issued",
                          !.statements = <<Select("articles", undefined, <<>>, 0, 0)>>]
  /\ UNCHANGED <<belongsTo, reads>>
  /\ UNCHANGED queryVars
  /\ UNCHANGED <<instanceVars, adapterVars, methodVars>>

\* the adapter answers the primary statement: the rows, or an error
PrimaryAnswered(ok) ==
  /\ load.pc = "primary_issued"
  /\ load' = IF ok
             THEN [load EXCEPT !.pc = "primary_done", !.rows = load.table,
                               !.completed = @ + 1,
                               !.author = [j \in 1..Len(load.table) |-> Unloaded]]
             ELSE [load EXCEPT !.pc = "settled", !.outcome = Failing(AdapterError)]
  /\ UNCHANGED <<belongsTo, reads>>
  /\ UNCHANGED queryVars
  /\ UNCHANGED <<instanceVars, adapterVars, methodVars>>

\* the relation's prefetch runs on the instances that were fetched
Prefetch ==
  /\ load.pc = "primary_done"
  /\ LET issued == prefetch(load, belongsTo)
     IN load' = IF issued = <<>>
                THEN [load EXCEPT !.pc = "prefetch_done"]
                ELSE [load EXCEPT !.pc = "prefetch_issued",
                                  !.statements = @ \o issued]
  /\ belongsTo' = primaryKey(belongsTo).b
  /\ UNCHANGED reads
  /\ UNCHANGED queryVars
  /\ UNCHANGED <<instanceVars, adapterVars, methodVars>>

\* the adapter answers the related statement: the rows that exist, or an error
PrefetchAnswered(ok) ==
  /\ load.pc = "prefetch_issued"
  /\ load' = IF ok
             THEN [load EXCEPT
                     !.pc = "prefetch_done",
                     !.completed = Len(load.statements),
                     !.related = {k \in load.users :
                                    \E n \in 2..Len(load.statements) :
                                      \E i \in 1..Len(load.statements[n].keys) :
                                        load.statements[n].keys[i] = k}]
             ELSE [load EXCEPT !.pc = "settled", !.outcome = Failing(AdapterError)]
  /\ UNCHANGED <<belongsTo, reads>>
  /\ UNCHANGED queryVars
  /\ UNCHANGED <<instanceVars, adapterVars, methodVars>>

\* the fetched objects are associated, and the fetch settles
Associate ==
  /\ load.pc = "prefetch_done"
  /\ load' = associatePrefetchResults(load, belongsTo)
  /\ belongsTo' = foreignKey(belongsTo).b
  /\ UNCHANGED reads
  /\ UNCHANGED queryVars
  /\ UNCHANGED <<instanceVars, adapterVars, methodVars>>

\* article.fetchAuthor(): one select of the related row
FetchRelated ==
  /\ load.pc = "start"
  /\ load.kind = "fetch"
  /\ load' = [load EXCEPT
               !.pc = "fetch_issued",
               !.rows = <<load.instance>>,
               !.author = <<Unloaded>>,
               !.statements = <<Select("users", primaryKey(belongsTo).value,
                                       <<load.instance>>, 1, 0)>>]
  /\ belongsTo' = primaryKey(belongsTo).b
  /\ UNCHANGED reads
  /\ UNCHANGED queryVars
  /\ UNCHANGED <<instanceVars, adapterVars, methodVars>>

\* the adapter answers the fetch of the related object
FetchAnswered(ok) ==
  /\ load.pc = "fetch_issued"
  /\ LET found == load.instance \in load.users
         e == validateFetchedObjects(load.instance, found, belongsTo)
     IN load' = IF ~ok
                THEN [load EXCEPT !.pc = "settled", !.outcome = Failing(AdapterError)]
                ELSE IF e # NoError
                THEN [load EXCEPT !.pc = "settled", !.completed = 1,
                                  !.outcome = Failing(e)]
                ELSE [load EXCEPT !.pc = "settled", !.completed = 1,
                                  !.related = {load.instance},
                                  !.author = <<load.instance>>,
                                  !.outcome = Resolved]
  /\ belongsTo' = foreignKey(belongsTo).b
  /\ UNCHANGED reads
  /\ UNCHANGED queryVars
  /\ UNCHANGED <<instanceVars, adapterVars, methodVars>>

-----------------------------------------------------------------------------
(* Belongs-to relation: the members it adds to an instance *)

\* a User object; NoObject is the absence of one (null/undefined)
User(id, persisted) == [exists |-> TRUE, id |-> id, persisted |-> persisted]
NoObject == [exists |-> FALSE, id |-> Null, persisted |-> FALSE]

\* the relation cache of an instance: nothing stored yet, or what was stored
NotLoaded == [loaded |-> FALSE, object |-> NoObject]
Loaded(o) == [loaded |-> TRUE, object |-> o]

\* 'The relation "author" has not yet been loaded.'
NotLoadedError(name) ==
  [kind |-> "not yet loaded", type |-> "none", column |-> name, key |-> Null]

\* 'Cannot set read-only property authorId'
CannotSetError(property) ==
  [kind |-> "cannot set", type |-> "none", column |-> property, key |-> Null]

ArticleId == 932

\* Article.fresh({ id: 932, authorKey: key }): a stored instance, nothing
\* dirty, the relation not loaded
Fresh(key) ==
  [id |-> ArticleId, attrs |-> [author_id |-> key], dirty |-> {},
   _author |-> NotLoaded]

SelectUser(key) == [kind |-> "select", table |-> "users", args |-> <<key>>]
InsertUser == [kind |-> "insert", table |-> "users", args |-> <<>>]
UpdateArticle(instance) ==
  [kind |-> "update", table |-> "articles",
   args |-> <<instance.attrs.author_id, instance.id>>]

\* what a call on the instance gives back (an assignment: the value assigned)
Gave(thrown, returned) == [thrown |-> thrown, returned |-> returned]

\* a getter that loads the related object when it is not there
author_lazy(instance, statements) ==
  IF instance._author.loaded
  THEN [result |-> Gave(NoError, instance._author.object), statements |-> statements]
  ELSE [result |-> Gave(NoError, NoObject),
        statements |-> Append(statements, SelectUser(instance.attrs.author_id))]

\* instance.author: the cached related object; an error while nothing was stored
author(instance, statements) ==
  IF instance._author.loaded
  THEN [result |-> Gave(NoError, instance._author.object), statements |-> statements]
  ELSE [result |-> Gave(NotLoadedError(Str("plain", <<"author">>)), NoObject),
        statements |-> statements]

\* an association that writes the foreign key whatever the options say
associate_attrsAlways(instance, relatedObject, attrs) ==
  [instance EXCEPT !._author = Loaded(relatedObject),
                   !.attrs.author_id = relatedObject.id,
                   !.dirty = @ \cup {"author_id"}]

\* relation.associate(instance, relatedObject, { attrs: attrs }): the cache
\* holds the object; with attrs the foreign key becomes the object's key
associate(instance, relatedObject, attrs) ==
  IF attrs
  THEN [instance EXCEPT !._author = Loaded(relatedObject),
                        !.attrs.author_id = relatedObject.id,
                        !.dirty = @ \cup {"author_id"}]
  ELSE [instance EXCEPT !._author = Loaded(relatedObject)]

\* a setter that stores the value
setAuthorId_writable(instance, value, b) ==
  [instance |-> [instance EXCEPT !.attrs.author_id = value,
                                 !.dirty = @ \cup {"author_id"}],
   result |-> Gave(NoError, NoObject)]

\* instance.authorId = value: the property has a getter only
setAuthorId(instance, value, b) ==
  [instance |-> instance,
   result |-> Gave(CannotSetError(foreignKeyProperty(b).value), NoObject)]

\* a fetch that asks the adapter whatever the foreign key is
fetch_unconditional(instance, statements, o) ==
  [instance |-> instance,
   statements |-> Append(statements, SelectUser(instance.attrs.author_id)),
   op |-> [o EXCEPT !.pc = "select_issued", !.key = instance.attrs.author_id,
                    !.outcome = Unsettled, !.value = NoObject]]

\* instance.fetchAuthor(): one select of the related row by the foreign key;
\* without a foreign key nothing is asked and nothing is what was found
fetch(instance, statements, o) ==
  IF instance.attrs.author_id = Null
  THEN [instance |-> associate(instance, NoObject, FALSE),
        statements |-> statements,
        op |-> [o EXCEPT !.outcome = Resolved, !.value = NoObject]]
  ELSE [instance |-> instance,
        statements |-> Append(statements, SelectUser(instance.attrs.author_id)),
        op |-> [o EXCEPT !.pc = "select_issued", !.key = instance.attrs.author_id,
                         !.outcome = Unsettled, !.value = NoObject]]

\* the select of fetchAuthor answered: the row found is validated and associated
fetched(instance, o, ok, found, b) ==
  LET e == validateFetchedObjects(o.key, found, b)
  IN IF ~ok
     THEN [instance |-> instance,
           op |-> [o EXCEPT !.pc = "idle", !.outcome = Failing(AdapterError)]]
     ELSE IF e # NoError
     THEN [instance |-> instance,
           op |-> [o EXCEPT !.pc = "idle", !.outcome = Failing(e)]]
     ELSE [instance |-> associate(instance, User(o.key, TRUE), FALSE),
           op |-> [o EXCEPT !.pc = "idle", !.outcome = Resolved,
                            !.value = User(o.key, TRUE)]]

\* instance.save(): a related object that is not stored is stored first;
\* the instance is written when an attribute is dirty
save(instance, statements, o) ==
  LET related == instance._author.object
  IN IF instance._author.loaded /\ related.exists /\ ~related.persisted
     THEN [statements |-> Append(statements, InsertUser),
           op |-> [o EXCEPT !.pc = "insert_issued", !.outcome = Unsettled]]
     ELSE IF instance.dirty # {}
     THEN [statements |-> Append(statements, UpdateArticle(instance)),
           op |-> [o EXCEPT !.pc = "update_issued", !.outcome = Unsettled]]
     ELSE [statements |-> statements, op |-> [o EXCEPT !.outcome = Resolved]]

\* an insert whose generated id does not reach the owner
inserted_keyNotBound(instance, statements, o, ok, id) ==
  IF ~ok
  THEN [instance |-> instance, statements |-> statements,
        op |-> [o EXCEPT !.pc = "idle", !.outcome = Failing(AdapterError)]]
  ELSE LET stored == [instance EXCEPT !._author = Loaded(User(id, TRUE)),
                                      !.dirty = @ \cup {"author_id"}]
       IN [instance |-> stored,
           statements |-> Append(statements, UpdateArticle(stored)),
           op |-> [o EXCEPT !.pc = "update_issued"]]

\* the insert of the related object answered with the id it generated: the
\* object is stored under that id, the foreign key is that id, and the
\* instance is written
inserted(instance, statements, o, ok, id) ==
  IF ~ok
  THEN [instance |-> instance, statements |-> statements,
        op |-> [o EXCEPT !.pc = "idle", !.outcome = Failing(AdapterError)]]
  ELSE LET stored == associate(instance, User(id, TRUE), TRUE)
       IN [instance |-> stored,
           statements |-> Append(statements, UpdateArticle(stored)),
           op |-> [o EXCEPT !.pc = "update_issued"]]

\* the update of the instance answered: nothing is dirty any more
updated(instance, o, ok) ==
  IF ok
  THEN [instance |-> [instance EXCEPT !.dirty = {}],
        op |-> [o EXCEPT !.pc = "idle", !.outcome = Resolved]]
  ELSE [instance |-> instance,
        op |-> [o EXCEPT !.pc = "idle", !.outcome = Failing(AdapterError)]]

\* the id the adapter generates for the next inserted row
GeneratedId(statements) ==
  MaxKey + Cardinality({i \in 1..Len(statements) : statements[i].kind = "insert"})

\* no operation in flight, nothing called yet
Idle ==
  [pc |-> "idle", key |-> Null, outcome |-> Unsettled, value |-> NoObject,
   last |-> "none", tick |-> FALSE, result |-> Gave(NoError, NoObject)]

\* the call or callback that ran last
Ran(o, name, result) ==
  [o EXCEPT !.last = name, !.tick = ~@, !.result = result]

-----------------------------------------------------------------------------
(* Relations: the attributes methods() generates *)

\* the name of a method or property, as the pieces it is made of: text, a
\* placeholder (<singular>, <Singular>, <plural>, <Plural>), or the form of a
\* relation's name that took a placeholder's place
Text(t) == [kind |-> "text", text |-> t, form |-> undefined]
Placeholder(t) == [kind |-> "placeholder", text |-> t, form |-> undefined]
Form(s) == [kind |-> "form", text |-> "", form |-> s]

\* inflection.singularize
singularize(s) == [s EXCEPT !.plural = FALSE]

\* db.model(name): the model class registered under the name
db_model(name) == [class |-> name]

\* the arguments a relation is defined with after the attribute details: a
\* model class, a string, an options object, or undefined
ClassArgument(class) == [kind |-> "class", class |-> class, string |-> undefined, object |-> "none"]
StringArgument(s) == [kind |-> "string", class |-> db_model(undefined), string |-> s, object |-> "none"]
ObjectArgument(o) == [kind |-> "object", class |-> db_model(undefined), string |-> undefined, object |-> o]
UndefinedArgument ==
  [kind |-> "undefined", class |-> db_model(undefined), string |-> undefined, object |-> "none"]

\* the value of an argument: the class, the string or the object itself
ValueOf(a) ==
  CASE a.kind = "class" -> [kind |-> "class", value |-> a.class]
    [] a.kind = "string" -> [kind |-> "string", value |-> a.string]
    [] a.kind = "object" -> [kind |-> "object", value |-> a.object]
    [] a.kind = "undefined" -> [kind |-> "undefined", value |-> "undefined"]

\* {}: the options object made when none was given
EmptyObject == [kind |-> "object", value |-> "{}"]

\* args.shift(): the first argument (undefined when there is none) and the rest
shiftArgs(arguments) ==
  IF arguments = <<>> THEN [value |-> UndefinedArgument, rest |-> <<>>]
  ELSE [value |-> Head(arguments), rest |-> Tail(arguments)]

\* an init that looks the relation's name up as it is written
BaseRelation_init_nameAsIs(name, modelClass, arguments) ==
  LET first == shiftArgs(arguments).value
      byClass == first.kind = "class"
      byString == first.kind = "string"
      relatedModel == IF byClass THEN first.class
                      ELSE IF byString THEN db_model(first.string)
                      ELSE db_model(name)
      rest == IF byClass \/ byString THEN shiftArgs(arguments).rest ELSE arguments
      options == shiftArgs(rest).value
  IN [_name |-> name, _modelClass |-> modelClass, _relatedModel |-> relatedModel,
      _options |-> IF options.kind = "undefined" THEN EmptyObject ELSE ValueOf(options)]

\* BaseRelation.init(name, attributeDetails, relatedModel, options), the model
\* class being attributeDetails.context.__identity__ and arguments those
\* after the attribute details
BaseRelation_init(name, modelClass, arguments) ==
  LET first == shiftArgs(arguments).value
      byClass == first.kind = "class"
      byString == first.kind = "string"
      relatedModel == IF byClass THEN first.class
                      ELSE IF byString THEN db_model(first.string)
                      ELSE db_model(singularize(name))
      rest == IF byClass \/ byString THEN shiftArgs(arguments).rest ELSE arguments
      options == shiftArgs(rest).value
  IN [_name |-> name, _modelClass |-> modelClass, _relatedModel |-> relatedModel,
      _options |-> IF options.kind = "undefined" THEN EmptyObject ELSE ValueOf(options)]

\* _.capitalize
capitalize(s) == [s EXCEPT !.style = "pascal"]

RECURSIVE replace(_, _, _)
\* string.replace(pattern, replacement) with a string for a pattern: the
\* first occurrence is replaced
replace(string, pattern, replacement) ==
  IF string = <<>> THEN <<>>
  ELSE IF Head(string) = Placeholder(pattern)
  THEN <<Form(replacement)>> \o Tail(string)
  ELSE <<Head(string)>> \o replace(Tail(string), pattern, replacement)

\* BaseRelation.template(string) of a relation with the given _name
template(name, string) ==
  LET singular == singularize(name)
      plural == pluralize(singular)
      singularCapitalized == capitalize(singular)
      pluralCapitalized == capitalize(plural)
  IN replace(replace(replace(replace(string, "<singular>", singular),
                             "<Singular>", singularCapitalized),
                     "<plural>", plural),
             "<Plural>", pluralCapitalized)

RECURSIVE transformMethods(_, _, _)
\* _.transform(methods, function(result, method, key) {
\*   result[self.template(key)] = method(self); }, {}), over the first i entries
transformMethods(name, table, i) ==
  IF i = 0 THEN <<>>
  ELSE Put(transformMethods(name, table, i - 1), template(name, table[i].key),
           [callable |-> table[i].callable, relation |-> name])

\* BaseRelation.methods() of a relation of a kind with the static table
methods(name, table) == transformMethods(name, table, Len(table))

-----------------------------------------------------------------------------
(* MySQL adapter: the translator's predicates *)

\* a value given to a condition: a string or a RegExp with the text it holds,
\* whether the text has LIKE wildcards (% or _) in it, and what was done to
\* it: wildcards escaped, a % put before it, a % put after it
Value(kind, text, wild) ==
  [kind |-> kind, text |-> text, wild |-> wild, escaped |-> FALSE,
   leading |-> FALSE, trailing |-> FALSE]

\* the days of the week, Sunday first
Weekdays ==
  <<"sunday", "monday", "tuesday", "wednesday", "thursday", "friday", "saturday">>

\* date.parseWeekdayToInt: the number of the day, Sunday = 0
parseWeekdayToInt(day) == (CHOOSE i \in 1..Len(Weekdays) : Weekdays[i] = day) - 1

\* a shift that leaves the parsed number as it is
shift_none(n) == n

\* var shift = function(n) { return (n + 6) % 7; }
shift(n) == (n + 6) % 7

\* the value transforms a predicate names
transform_none(name, v) == v

transform(name, v) ==
  CASE name = "like" -> [v EXCEPT !.escaped = v.wild]
    [] name = "contains" -> [v EXCEPT !.leading = TRUE, !.trailing = TRUE]
    [] name = "startsWith" -> [v EXCEPT !.trailing = TRUE]
    [] name = "endsWith" -> [v EXCEPT !.leading = TRUE]
    [] name = "regex" -> [v EXCEPT !.kind = "string"]
    [] name = "parseWeekday" -> parseWeekdayToInt(v)
    [] name = "shift" -> shift(v)

RECURSIVE transformAll(_, _)
\* the transforms applied in the order they were given
transformAll(names, v) ==
  IF names = <<>> THEN v
  ELSE transformAll(Tail(names), transform(Head(names), v))

RECURSIVE format(_, _)
\* util.format: each %s of the format replaced by the next argument
format(f, arguments) ==
  IF f = <<>> THEN <<>>
  ELSE IF Head(f) = "%s" /\ arguments # <<>>
  THEN <<Head(arguments)>> \o format(Tail(f), Tail(arguments))
  ELSE <<Head(f)>> \o format(Tail(f), arguments)

Predicates ==
  {"iExact", "contains", "iContains", "regex", "iRegex", "startsWith",
   "iStartsWith", "endsWith", "iEndsWith"}

\* Translator.predicateFor<P>: the predicate of the base translator
Translator_predicateFor(p) ==
  [format |-> <<"%s", p, "%s">>, transforms |-> <<>>]

\* predicate.using(format)
using(predicate, f) == [predicate EXCEPT !.format = f]

\* predicate.value(transform, ...)
values(predicate, transforms) == [predicate EXCEPT !.transforms = transforms]

\* a translator in which contains compares as iContains does
predicateFor_plainContains(p) ==
  LET super == Translator_predicateFor(p)
      like == <<"%s", "LIKE", "%s">>
      likeBinary == <<"%s", "LIKE", "BINARY", "%s">>
      regexp == <<"%s", "REGEXP", "%s">>
      regexpBinary == <<"%s", "REGEXP", "BINARY", "%s">>
  IN CASE p = "iExact" -> using(super, like)
       [] p = "contains" -> values(using(super, like), <<"like", "contains">>)
       [] p = "iContains" -> values(using(super, like), <<"like", "contains">>)
       [] p = "regex" -> values(using(super, regexpBinary), <<"regex">>)
       [] p = "iRegex" -> values(using(super, regexp), <<"regex">>)
       [] p = "startsWith" -> values(using(super, likeBinary), <<"like", "startsWith">>)
       [] p = "iStartsWith" -> values(using(super, like), <<"like", "startsWith">>)
       [] p = "endsWith" -> values(using(super, likeBinary), <<"like", "endsWith">>)
       [] p = "iEndsWith" -> values(using(super, like), <<"like", "endsWith">>)

\* MySQLTranslator.predicateFor<P>
predicateFor(p) ==
  LET super == Translator_predicateFor(p)
      like == <<"%s", "LIKE", "%s">>
      likeBinary == <<"%s", "LIKE", "BINARY", "%s">>
      regexp == <<"%s", "REGEXP", "%s">>
      regexpBinary == <<"%s", "REGEXP", "BINARY", "%s">>
  IN CASE p = "iExact" -> using(super, like)
       [] p = "contains" -> values(using(super, likeBinary), <<"like", "contains">>)
       [] p = "iContains" -> values(using(super, like), <<"like", "contains">>)
       [] p = "regex" -> values(using(super, regexpBinary), <<"regex">>)
       [] p = "iRegex" -> values(using(super, regexp), <<"regex">>)
       [] p = "startsWith" -> values(using(super, likeBinary), <<"like", "startsWith">>)
       [] p = "iStartsWith" -> values(using(super, like), <<"like", "startsWith">>)
       [] p = "endsWith" -> values(using(super, likeBinary), <<"like", "endsWith">>)
       [] p = "iEndsWith" -> values(using(super, like), <<"like", "endsWith">>)

\* the condition column$p = v rendered: the fragment with the column and the
\* placeholder in it, and the value bound to the placeholder
render(p, column, v) ==
  LET predicate == predicateFor(p)
  IN [fragment |-> format(predicate.format, <<column, "?">>),
      arguments |-> <<transformAll(predicate.transforms, v)>>]

\* MySQLTranslator.predicateForWeekday
predicateForWeekday ==
  values(using(Translator_predicateFor("weekday"), <<"WEEKDAY(", "%s", ")", "=", "%s">>),
         <<"parseWeekday", "shift">>)

\* the condition column$weekday = day rendered
renderWeekday(column, day) ==
  [fragment |-> format(predicateForWeekday.format, <<column, "?">>),
   arguments |-> <<transformAll(predicateForWeekday.transforms, day)>>]

-----------------------------------------------------------------------------
(* MySQL adapter: the grammar's escape and the translator's decimal type *)

\* a value handed to escape: a string, as its characters, or a number
StringValue(chars) == [kind |-> "string", chars |-> chars, n |-> 0]
NumberValue(n) == [kind |-> "number", chars |-> <<>>, n |-> n]

Backslash == "\\"

\* _.isString
isString(v) == v.kind = "string"

RECURSIVE String_replace(_, _, _)
\* string.replace(pattern, replacement), pattern a string of one character:
\* the first occurrence is replaced
String_replace(chars, pattern, replacement) ==
  IF chars = <<>> THEN <<>>
  ELSE IF Head(chars) = pattern THEN replacement \o Tail(chars)
  ELSE <<Head(chars)>> \o String_replace(Tail(chars), pattern, replacement)

\* Adapter.Grammar.escape, kept as the call it is: the value it is given
Grammar_escape(v) == [call |-> "Grammar.escape", argument |-> v]

\* MySQLGrammar.escape
MySQLGrammar_escape(v) ==
  LET replaced == IF isString(v)
                  THEN [v EXCEPT !.chars = String_replace(@, Backslash, <<Backslash, Backslash>>)]
                  ELSE v
  IN Grammar_escape(replaced)

\* an option of a column type: not given, or the number given
NotGiven == [given |-> FALSE, n |-> 0]
Given(n) == [given |-> TRUE, n |-> n]

\* the options object of a column type, or no object at all
Options(precision, scale) == [defined |-> TRUE, precision |-> precision, scale |-> scale]
Unspecified == [defined |-> FALSE, precision |-> NotGiven, scale |-> NotGiven]

\* !opts.precision: an option that is not given, or is 0
Falsy(o) == ~o.given \/ o.n = 0

\* Translator.typeForDecimal, kept as the call it is: the options it is given
Translator_typeForDecimal(opts) == [call |-> "Translator.typeForDecimal", argument |-> opts]

\* a typeForDecimal that fills the defaults into the object it was given
typeForDecimal_inPlace(options) ==
  LET opts == IF options.defined THEN options ELSE Options(NotGiven, NotGiven)
      filled == IF Falsy(opts.precision) THEN Options(Given(64), Given(30)) ELSE opts
  IN [options |-> IF options.defined THEN filled ELSE options,
      type |-> Translator_typeForDecimal(filled)]

\* MySQLTranslator.typeForDecimal: the caller's object after the call, and
\* what _super was called with
typeForDecimal(options) ==
  LET opts == IF options.defined THEN options ELSE Options(NotGiven, NotGiven)
      filled == IF Falsy(opts.precision) THEN Options(Given(64), Given(30)) ELSE opts
  IN [options |-> options, type |-> Translator_typeForDecimal(filled)]

-----------------------------------------------------------------------------
(* MySQL adapter: execution *)

\* what the driver hands to the callback of a query as `rows`: the packet of
\* a statement that returns no rows (with its insertId, 0 when no id was
\* generated), or the list of the rows selected
OkPacket(insertId) == [packet |-> TRUE, insertId |-> insertId, list |-> <<>>]
RowData(list) == [packet |-> FALSE, insertId |-> Null, list |-> list]

\* what the driver hands over as `fields`: undefined, or the field packets
NoFields == [defined |-> FALSE, packets |-> <<>>]
Fields(names) == [defined |-> TRUE, packets |-> [i \in 1..Len(names) |-> [name |-> names[i]]]]

\* rows.insertId as the condition of an if
HasInsertId(rows) == rows.packet /\ rows.insertId # 0

\* a callback that reports the insertId of every packet
MySQLAdapter_execute_anyPacket(rows, fields) ==
  [returning |-> IF rows.packet THEN <<rows.insertId>> ELSE <<>>,
   result |-> [rows |-> IF fields.defined THEN rows ELSE RowData(<<>>),
               fields |-> [i \in 1..Len(fields.packets) |-> fields.packets[i].name]]]

\* MySQLAdapter._execute, the callback given to spread: the calls it makes
\* of `returning` and the result it returns
MySQLAdapter_execute(rows, fields) ==
  [returning |-> IF HasInsertId(rows) THEN <<rows.insertId>> ELSE <<>>,
   result |-> [rows |-> IF fields.defined THEN rows ELSE RowData(<<>>),
               fields |-> [i \in 1..Len(fields.packets) |-> fields.packets[i].name]]]

NoCondition == [p |-> "none", column |-> "none", v |-> Value("string", 0, FALSE)]
NoFragment == [fragment |-> <<>>, arguments |-> <<>>]
NoResult == [rows |-> RowData(<<>>), fields |-> <<>>]

-----------------------------------------------------------------------------
(* Actions: calls on an instance with a belongs-to relation, and the adapter *)

\* article.author read by a caller
ReadAuthor ==
  /\ LET r == author(article, executed)
     IN /\ executed' = r.statements
        /\ operation' = Ran(operation, "author", r.result)
  /\ UNCHANGED article
  /\ UNCHANGED <<queryVars, relationVars, adapterVars, methodVars>>

\* article.fetchAuthor()
FetchAuthor ==
  /\ operation.pc = "idle"
  /\ article.attrs.author_id # Null => Len(executed) < MaxStatements
  /\ LET r == fetch(article, executed, operation)
     IN /\ article' = r.instance
        /\ executed' = r.statements
        /\ operation' = Ran(r.op, "fetchAuthor", Gave(NoError, NoObject))
  /\ UNCHANGED <<queryVars, relationVars, adapterVars, methodVars>>

\* the adapter answers the select of fetchAuthor: a row or none, or an error
FetchAuthorAnswered(ok, found) ==
  /\ operation.pc = "select_issued"
  /\ LET r == fetched(article, operation, ok, found, belongsTo)
     IN /\ article' = r.instance
        /\ operation' = Ran(r.op, "fetched", Gave(NoError, NoObject))
  /\ belongsTo' = foreignKey(belongsTo).b
  /\ UNCHANGED executed
  /\ UNCHANGED <<queryVars, reads, load, adapterVars, methodVars>>

\* article.createAuthor(attrs): a new User, not stored, associated
CreateAuthor ==
  /\ operation.pc = "idle"
  /\ article' = associate(article, User(Null, FALSE), TRUE)
  /\ operation' = Ran(operation, "createAuthor", Gave(NoError, User(Null, FALSE)))
  /\ UNCHANGED executed
  /\ UNCHANGED <<queryVars, relationVars, adapterVars, methodVars>>

\* article.author = relatedObject
SetAuthor(relatedObject) ==
  /\ operation.pc = "idle"
  /\ article' = associate(article, relatedObject, TRUE)
  /\ operation' = Ran(operation, "setAuthor", Gave(NoError, relatedObject))
  /\ UNCHANGED executed
  /\ UNCHANGED <<queryVars, relationVars, adapterVars, methodVars>>

\* relation.associate(article, relatedObject, { attrs: false }), as a
\* pre-fetch does with the object it loaded
AssociateFetched(relatedObject) ==
  /\ operation.pc = "idle"
  /\ article' = associate(article, relatedObject, FALSE)
  /\ operation' = Ran(operation, "associate", Gave(NoError, relatedObject))
  /\ UNCHANGED executed
  /\ UNCHANGED <<queryVars, relationVars, adapterVars, methodVars>>

\* article.authorId = value
SetAuthorId(value) ==
  /\ LET r == setAuthorId(article, value, belongsTo)
     IN /\ article' = r.instance
        /\ operation' = Ran(operation, "setAuthorId", r.result)
  /\ belongsTo' = foreignKeyProperty(belongsTo).b
  /\ UNCHANGED executed
  /\ UNCHANGED <<queryVars, reads, load, adapterVars, methodVars>>

\* article.save()
Save ==
  /\ operation.pc = "idle"
  /\ Len(save(article, executed, operation).statements) > Len(executed)
       => Len(executed) + 2 <= MaxStatements
  /\ LET r == save(article, executed, operation)
     IN /\ executed' = r.statements
        /\ operation' = Ran(r.op, "save", Gave(NoError, NoObject))
  /\ UNCHANGED article
  /\ UNCHANGED <<queryVars, relationVars, adapterVars, methodVars>>

\* the adapter answers the insert of the related object
InsertAnswered(ok) ==
  /\ operation.pc = "insert_issued"
  /\ LET r == inserted(article, executed, operation, ok, GeneratedId(executed))
     IN /\ article' = r.instance
        /\ executed' = r.statements
        /\ operation' = Ran(r.op, "inserted", Gave(NoError, NoObject))
  /\ UNCHANGED <<queryVars, relationVars, adapterVars, methodVars>>

\* the adapter answers the update of the instance
UpdateAnswered(ok) ==
  /\ operation.pc = "update_issued"
  /\ LET r == updated(article, operation, ok)
     IN /\ article' = r.instance
        /\ operation' = Ran(r.op, "updated", Gave(NoError, NoObject))
  /\ UNCHANGED executed
  /\ UNCHANGED <<queryVars, relationVars, adapterVars, methodVars>>

-----------------------------------------------------------------------------
(* Actions: the MySQL translator and adapter *)

\* a condition column$p = v is translated
Translate(p, column, v) ==
  /\ mysql' = [mysql EXCEPT !.condition = [p |-> p, column |-> column, v |-> v],
                            !.rendered = render(p, column, v)]
  /\ UNCHANGED <<queryVars, relationVars, instanceVars, methodVars>>

\* adapter._execute(connection, sql, args, returning): the query is handed
\* to the driver
Query ==
  /\ mysql.pc \in {"none", "delivered", "rejected"}
  /\ mysql' = [mysql EXCEPT !.pc = "querying", !.driver = [rows |-> RowData(<<>>),
                                                            fields |-> NoFields],
                            !.returning = <<>>, !.returned = NoResult,
                            !.delivered = NoResult]
  /\ UNCHANGED <<queryVars, relationVars, instanceVars, methodVars>>

\* the driver calls back with rows and fields
QueryAnswered(rows, fields) ==
  /\ mysql.pc = "querying"
  /\ LET r == MySQLAdapter_execute(rows, fields)
     IN mysql' = [mysql EXCEPT !.pc = "returned",
                               !.driver = [rows |-> rows, fields |-> fields],
                               !.returning = r.returning,
                               !.returned = r.result]
  /\ UNCHANGED <<queryVars, relationVars, instanceVars, methodVars>>

\* the driver fails the query
QueryFailed ==
  /\ mysql.pc = "querying"
  /\ mysql' = [mysql EXCEPT !.pc = "rejected"]
  /\ UNCHANGED <<queryVars, relationVars, instanceVars, methodVars>>

\* the promise of _execute is fulfilled with what the callback returned
DeliverResult ==
  /\ mysql.pc = "returned"
  /\ mysql' = [mysql EXCEPT !.pc = "delivered", !.delivered = mysql.returned]
  /\ UNCHANGED <<queryVars, relationVars, instanceVars, methodVars>>

\* grammar.escape(value)
Escape(v) ==
  /\ mysql' = [mysql EXCEPT !.escaped = [called |-> TRUE, value |-> v,
                                          result |-> MySQLGrammar_escape(v)]]
  /\ UNCHANGED <<queryVars, relationVars, instanceVars, methodVars>>

\* the condition column$weekday = day is translated
TranslateWeekday(column, day) ==
  /\ mysql' = [mysql EXCEPT !.weekday = [called |-> TRUE, column |-> column, day |-> day,
                                          rendered |-> renderWeekday(column, day)]]
  /\ UNCHANGED <<queryVars, relationVars, instanceVars, methodVars>>

\* translator.typeForDecimal(options), options being the caller's object
TypeForDecimal(options) ==
  /\ LET r == typeForDecimal(options)
     IN mysql' = [mysql EXCEPT !.decimal = [called |-> TRUE, given |-> options,
                                            options |-> r.options, type |-> r.type]]
  /\ UNCHANGED <<queryVars, relationVars, instanceVars, methodVars>>

-----------------------------------------------------------------------------
(* Actions: the attributes of a relation *)

\* a relation is defined on the article model: Relation.create(name,
\* attributeDetails, ...arguments)
Define(name, arguments) ==
  /\ members' = [members EXCEPT
                   !.pc = "initialized", !.name = name, !.arguments = arguments,
                   !.relation = BaseRelation_init(name, db_model(Str("plain", <<"article">>)),
                                                  arguments)]
  /\ UNCHANGED <<queryVars, relationVars, instanceVars, adapterVars>>

\* relation.methods() is called when the relation is added to a model class
Methods ==
  /\ members.pc = "defined"
  /\ members' = [members EXCEPT !.pc = "generated",
                                !.attributes = methods(members.name, members.table)]
  /\ UNCHANGED <<queryVars, relationVars, instanceVars, adapterVars>>

-----------------------------------------------------------------------------
(* Actions: reads of a relation's configuration, and changes around it *)

\* relation.<prop> read by a caller
ReadRelationProperty(prop) ==
  /\ LET r == RelationRead(belongsTo, prop)
     IN /\ belongsTo' = r.b
        /\ reads' = [first |-> IF reads.first[prop] = undefined
                               THEN [reads.first EXCEPT ![prop] = r.value]
                               ELSE reads.first,
                     last |-> [prop |-> prop, value |-> r.value]]
  /\ UNCHANGED load
  /\ UNCHANGED queryVars
  /\ UNCHANGED <<instanceVars, adapterVars, methodVars>>

\* relation._options[opt] = v (v undefined: the option is deleted)
SetOption(opt, v) ==
  /\ belongsTo.relation._options[opt] # v
  /\ belongsTo' = [belongsTo EXCEPT !.relation._options[opt] = v]
  /\ UNCHANGED <<reads, load>>
  /\ UNCHANGED queryVars
  /\ UNCHANGED <<instanceVars, adapterVars, methodVars>>

\* the owning model class gets another name
RenameClass(n) ==
  /\ belongsTo.modelClassName # n
  /\ belongsTo' = [belongsTo EXCEPT !.modelClassName = n]
  /\ UNCHANGED <<reads, load>>
  /\ UNCHANGED queryVars
  /\ UNCHANGED <<instanceVars, adapterVars, methodVars>>

-----------------------------------------------------------------------------
(* Actions: calls made by callers *)

Call(q, via) ==
  /\ q \in live
  /\ Len(calls) < MaxCalls
  /\ LET r == IF via = "then" THEN then(World, chains, q) ELSE execute(World, chains, q)
     IN /\ queries' = r.w.queries
        /\ promises' = r.w.promises
        /\ log' = r.w.log
        /\ chains' = r.chains
        /\ calls' = Append(calls, [q |-> q, follows |-> r.follows, out |-> r.out])
  /\ UNCHANGED relationVars
  /\ UNCHANGED <<instanceVars, adapterVars, methodVars>>
  /\ UNCHANGED <<adapterLog, live, handed, lastOp, origin, lineage, lastRead>>

\* the promise returned to a caller settles as the promise it follows
Deliver(k) ==
  /\ k \in 1..Len(calls)
  /\ calls[k].out.state = "pending"
  /\ calls[k].follows # 0
  /\ promises[calls[k].follows].state # "pending"
  /\ calls' = [calls EXCEPT ![k].out = promises[calls[k].follows]]
  /\ UNCHANGED relationVars
  /\ UNCHANGED <<instanceVars, adapterVars, methodVars>>
  /\ UNCHANGED <<queries, promises, chains, log, adapterLog, live, handed, lastOp, origin, lineage, lastRead>>

Hand(w, ret) ==
  [x \in live \cup {ret} |->
     IF x \in live THEN handed[x] ELSE statement(w.queries[ret])]

Descend(recv, ret, op, arg) ==
  [x \in live \cup {ret} |->
     IF x \in live THEN lineage[x]
     ELSE Append(lineage[recv], [op |-> op, arg |-> arg])]

Clone(q, max) ==
  /\ q \in live
  /\ Cardinality(live) < max
  /\ LET r == clone(World, q)
     IN /\ queries' = r.w.queries
        /\ promises' = r.w.promises
        /\ log' = r.w.log
        /\ origin' = r.w.origin
        /\ live' = live \cup {r.ret}
        /\ handed' = Hand(r.w, r.ret)
        /\ lastOp' = [op |-> "clone", recv |-> q, ret |-> r.ret]
        /\ lineage' = Descend(q, r.ret, "clone", <<>>)
  /\ UNCHANGED relationVars
  /\ UNCHANGED <<instanceVars, adapterVars, methodVars>>
  /\ UNCHANGED <<chains, adapterLog, calls, lastRead>>

\* a chain call that changes the query type: q._spawn(type, arguments)
Spawn(q, type, arguments) ==
  /\ q \in live
  /\ Cardinality(live) < MaxQueries
  /\ LET r == _spawn(World, q, type, arguments)
     IN /\ queries' = r.w.queries
        /\ promises' = r.w.promises
        /\ log' = r.w.log
        /\ origin' = r.w.origin
        /\ live' = live \cup {r.ret}
        /\ handed' = Hand(r.w, r.ret)
        /\ lastOp' = [op |-> "spawn", recv |-> q, ret |-> r.ret]
        /\ lineage' = Descend(q, r.ret, "spawn", <<type>>)
  /\ UNCHANGED relationVars
  /\ UNCHANGED <<instanceVars, adapterVars, methodVars>>
  /\ UNCHANGED <<chains, adapterLog, calls, lastRead>>

\* q.join(association)
JoinAssociation(q, association) ==
  /\ q \in live
  /\ queries[q].type = "ModelQuery"
  /\ Cardinality(live) < MaxChained
  /\ LET r == join(World, q, <<association>>)
     IN /\ queries' = r.w.queries
        /\ promises' = r.w.promises
        /\ log' = r.w.log
        /\ origin' = r.w.origin
        /\ live' = live \cup {r.ret}
        /\ handed' = Hand(r.w, r.ret)
        /\ lastOp' = [op |-> "join", recv |-> q, ret |-> r.ret]
        /\ lineage' = Descend(q, r.ret, "join", association)
  /\ UNCHANGED relationVars
  /\ UNCHANGED <<instanceVars, adapterVars, methodVars>>
  /\ UNCHANGED <<chains, adapterLog, calls, lastRead>>

\* q.join(table, type, condition)
RawJoin(q, table, type) ==
  /\ q \in live
  /\ queries[q].type = "ModelQuery"
  /\ Cardinality(live) < MaxChained
  /\ LET arg == [table |-> Name(table), as |-> Name(table)]
         cond == [rel |-> "none", base |-> tableName(queries[q]._model),
                  related |-> Name(table)]
         r == join(World, q, <<arg, type, cond>>)
     IN /\ queries' = r.w.queries
        /\ promises' = r.w.promises
        /\ log' = r.w.log
        /\ origin' = r.w.origin
        /\ live' = live \cup {r.ret}
        /\ handed' = Hand(r.w, r.ret)
        /\ lastOp' = [op |-> "rawjoin", recv |-> q, ret |-> r.ret]
        /\ lineage' = Descend(q, r.ret, "rawjoin", <<table>>)
  /\ UNCHANGED relationVars
  /\ UNCHANGED <<instanceVars, adapterVars, methodVars>>
  /\ UNCHANGED <<chains, adapterLog, calls, lastRead>>

ReadProperty(q, prop) ==
  /\ q \in live
  /\ lastRead' = [q |-> q, prop |-> prop, result |-> ReadOf(queries[q], prop)]
  /\ lastRead' # lastRead
  /\ UNCHANGED relationVars
  /\ UNCHANGED <<instanceVars, adapterVars, methodVars>>
  /\ UNCHANGED <<queries, promises, chains, log, adapterLog, calls, live, handed, lastOp,
                 origin, lineage>>

-----------------------------------------------------------------------------
(* Actions: the callbacks of a chain, and the adapter *)

\* .tap(this.emit.bind(this, 'execute'))
EmitExecute(c) ==
  /\ c \in 1..Len(chains)
  /\ chains[c].pc = "bound"
  /\ log' = Emit(World, chains[c].q, "execute", "none").log
  /\ chains' = [chains EXCEPT ![c].pc = "execute_emitted"]
  /\ UNCHANGED relationVars
  /\ UNCHANGED <<instanceVars, adapterVars, methodVars>>
  /\ UNCHANGED <<queries, promises, adapterLog, calls, live, handed, lastOp, origin, lineage, lastRead>>

\* .then(adapterExecute): self._adapter.execute(statement.sql, statement.args, ...)
AdapterExecute(c) ==
  /\ c \in 1..Len(chains)
  /\ chains[c].pc = "execute_emitted"
  /\ adapterLog' = Append(adapterLog, [q |-> chains[c].q,
                                        sql |-> chains[c].statement.sql,
                                        args |-> chains[c].statement.args,
                                        options |->
                                          [client |-> client(queries[chains[c].q])]])
  /\ log' = Note(World, chains[c].q, "invoke", "none").log
  /\ chains' = [chains EXCEPT ![c].pc = "adapter_called"]
  /\ UNCHANGED relationVars
  /\ UNCHANGED <<instanceVars, adapterVars, methodVars>>
  /\ UNCHANGED <<queries, promises, calls, live, handed, lastOp, origin, lineage, lastRead>>

\* the adapter's promise settles: rows, or an error
AdapterRespond(c, r) ==
  /\ c \in 1..Len(chains)
  /\ chains[c].pc = "adapter_called"
  /\ log' = Note(World, chains[c].q, "respond", r.value).log
  /\ chains' = [chains EXCEPT ![c].pc = "adapter_settled", ![c].resp = r]
  /\ UNCHANGED relationVars
  /\ UNCHANGED <<instanceVars, adapterVars, methodVars>>
  /\ UNCHANGED <<queries, promises, adapterLog, calls, live, handed, lastOp, origin, lineage, lastRead>>

\* .tap(this.emit.bind(this, 'rawResult')): runs on fulfilment only
EmitRawResult(c) ==
  /\ c \in 1..Len(chains)
  /\ chains[c].pc = "adapter_settled"
  /\ chains[c].resp.state = "fulfilled"
  /\ log' = Emit(World, chains[c].q, "rawResult", chains[c].resp.value).log
  /\ chains' = [chains EXCEPT ![c].pc = "raw_emitted"]
  /\ UNCHANGED relationVars
  /\ UNCHANGED <<instanceVars, adapterVars, methodVars>>
  /\ UNCHANGED <<queries, promises, adapterLog, calls, live, handed, lastOp, origin, lineage, lastRead>>

\* a tap that emits 'result' without the value it was handed
EmitResult_bare(c) ==
  /\ c \in 1..Len(chains)
  /\ chains[c].pc = "raw_emitted"
  /\ log' = Emit(World, chains[c].q, "result", "undefined").log
  /\ chains' = [chains EXCEPT ![c].pc = "handled"]
  /\ UNCHANGED relationVars
  /\ UNCHANGED <<instanceVars, adapterVars, methodVars>>
  /\ UNCHANGED <<queries, promises, adapterLog, calls, live, handed, lastOp, origin, lineage, lastRead>>

\* .tap(function(result) { self.emit('result', result); })
EmitResult(c) ==
  /\ c \in 1..Len(chains)
  /\ chains[c].pc = "raw_emitted"
  /\ log' = Emit(World, chains[c].q, "result", chains[c].resp.value).log
  /\ chains' = [chains EXCEPT ![c].pc = "handled"]
  /\ UNCHANGED relationVars
  /\ UNCHANGED <<instanceVars, adapterVars, methodVars>>
  /\ UNCHANGED <<queries, promises, adapterLog, calls, live, handed, lastOp, origin, lineage, lastRead>>

\* a catch handler that emits 'error' and does not throw again
EmitError_swallowed(c) ==
  /\ c \in 1..Len(chains)
  /\ chains[c].pc = "adapter_settled"
  /\ chains[c].resp.state = "rejected"
  /\ log' = Emit(World, chains[c].q, "error", chains[c].resp.value).log
  /\ chains' = [chains EXCEPT ![c].pc = "handled", ![c].resp = Fulfilled("undefined")]
  /\ UNCHANGED relationVars
  /\ UNCHANGED <<instanceVars, adapterVars, methodVars>>
  /\ UNCHANGED <<queries, promises, adapterLog, calls, live, handed, lastOp, origin, lineage, lastRead>>

\* .catch(function(e) { self.emit('error', e); throw e; })
EmitError(c) ==
  /\ c \in 1..Len(chains)
  /\ chains[c].pc = "adapter_settled"
  /\ chains[c].resp.state = "rejected"
  /\ log' = Emit(World, chains[c].q, "error", chains[c].resp.value).log
  /\ chains' = [chains EXCEPT ![c].pc = "handled"]
  /\ UNCHANGED relationVars
  /\ UNCHANGED <<instanceVars, adapterVars, methodVars>>
  /\ UNCHANGED <<queries, promises, adapterLog, calls, live, handed, lastOp, origin, lineage, lastRead>>

\* _resolve/_reject attached ahead of the 'result' tap
Resolve_beforeResult(c) ==
  /\ c \in 1..Len(chains)
  /\ chains[c].pc \in {"raw_emitted", "handled"}
  /\ promises' = Settle(promises, chains[c].resolve, chains[c].resp)
  /\ log' = Note(World, chains[c].q, chains[c].resp.state, chains[c].resp.value).log
  /\ chains' = [chains EXCEPT ![c].pc = "done"]
  /\ UNCHANGED relationVars
  /\ UNCHANGED <<instanceVars, adapterVars, methodVars>>
  /\ UNCHANGED <<queries, adapterLog, calls, live, handed, lastOp, origin, lineage, lastRead>>

\* .then(this._resolve, this._reject)
Resolve(c) ==
  /\ c \in 1..Len(chains)
  /\ chains[c].pc = "handled"
  /\ promises' = Settle(promises, chains[c].resolve, chains[c].resp)
  /\ log' = Note(World, chains[c].q, chains[c].resp.state, chains[c].resp.value).log
  /\ chains' = [chains EXCEPT ![c].pc = "done"]
  /\ UNCHANGED relationVars
  /\ UNCHANGED <<instanceVars, adapterVars, methodVars>>
  /\ UNCHANGED <<queries, adapterLog, calls, live, handed, lastOp, origin, lineage, lastRead>>

-----------------------------------------------------------------------------
(* Specifications *)

NoOp == [op |-> "none", recv |-> 0, ret |-> 1]
NoRead == [q |-> 0, prop |-> "none", result |-> Returned("none")]

\* a query made by init(adapter), in the given transaction (none by default)
QueryStart(transaction) ==
  \E type \in {"BaseQuery", "ModelQuery"} :
    LET made == init([queries |-> <<>>, promises |-> <<>>, log |-> <<>>, origin |-> <<>>],
                     type)
        w == [made.w EXCEPT !.queries[1]._adapter = "adapter",
                            !.queries[1]._transaction = transaction,
                            !.queries[1]._model =
                               IF type = "ModelQuery" THEN "Article" ELSE "none",
                            !.queries[1]._joinedRelationsId =
                               IF type = "ModelQuery" THEN 1 ELSE 0]
    IN /\ queries = w.queries
       /\ promises = w.promises
       /\ log = w.log
       /\ origin = w.origin
       /\ chains = <<>>
       /\ adapterLog = <<>>
       /\ calls = <<>>
       /\ live = {1}
       /\ handed = [x \in {1} |-> statement(w.queries[1])]
       /\ lastOp = NoOp
       /\ lineage = [x \in {1} |-> <<>>]
       /\ lastRead = NoRead

QueryInit == QueryStart("none")

NoOptions == [opt \in RelationOptions |-> undefined]

\* Article belongsTo User as author, declared without options
AuthorRelation ==
  [relation |-> BelongsTo(Str("plain", <<"author">>), NoOptions),
   modelClassName |-> Str("pascal", <<"article">>)]

NoReads ==
  [first |-> [prop \in RelationProperties |-> undefined],
   last |-> [prop |-> "none", value |-> undefined]]

NoLoad == [pc |-> "none"]

\* an article without an author, nothing called on it
InstanceInit ==
  /\ article = Fresh(Null)
  /\ executed = <<>>
  /\ operation = Idle

\* nothing translated, nothing executed
\* nothing escaped, no weekday condition rendered, no decimal type asked for
NoEscape ==
  [called |-> FALSE, value |-> NumberValue(0), result |-> Grammar_escape(NumberValue(0))]
NoWeekday ==
  [called |-> FALSE, column |-> "none", day |-> "none",
   rendered |-> [fragment |-> <<>>, arguments |-> <<>>]]
NoDecimal ==
  [called |-> FALSE, given |-> Unspecified, options |-> Unspecified,
   type |-> Translator_typeForDecimal(Unspecified)]

NoMySQL ==
  [condition |-> NoCondition, rendered |-> NoFragment, pc |-> "none",
   driver |-> [rows |-> RowData(<<>>), fields |-> NoFields],
   returning |-> <<>>, returned |-> NoResult, delivered |-> NoResult,
   escaped |-> NoEscape, weekday |-> NoWeekday, decimal |-> NoDecimal]

\* no relation defined
NoMembers ==
  [pc |-> "none", name |-> undefined, table |-> <<>>, attributes |-> <<>>,
   arguments |-> <<>>,
   relation |-> BaseRelation_init(undefined, db_model(undefined), <<>>)]

RestInit ==
  /\ mysql = NoMySQL
  /\ members = NoMembers

Init ==
  /\ QueryInit
  /\ belongsTo = AuthorRelation
  /\ reads = NoReads
  /\ load = NoLoad
  /\ InstanceInit
  /\ RestInit

Outcomes == {Fulfilled(v) : v \in Results} \cup {Rejected(e) : e \in Errors}

CallerExec ==
  \/ \E q \in live, via \in {"execute", "then"} : Call(q, via)
  \/ \E q \in live : Clone(q, MaxQueries)

CallerRead ==
  \/ \E q \in live, via \in {"execute", "then"} : Call(q, via)
  \/ \E q \in live, prop \in {"statement", "sql", "args"} : ReadProperty(q, prop)

ChainStep ==
  \/ \E c \in 1..Len(chains) : EmitExecute(c)
  \/ \E c \in 1..Len(chains) : AdapterExecute(c)
  \/ \E c \in 1..Len(chains) : EmitRawResult(c)
  \/ \E c \in 1..Len(chains) : EmitResult(c)
  \/ \E c \in 1..Len(chains) : EmitError(c)
  \/ \E c \in 1..Len(chains) : Resolve(c)
  \/ \E k \in 1..Len(calls) : Deliver(k)

AdapterStep == \E c \in 1..Len(chains), r \in Outcomes : AdapterRespond(c, r)

NextExec == CallerExec \/ ChainStep \/ AdapterStep

SpecExec == Init /\ [][NextExec]_vars

\* the transaction a query is made in, none included
Transactions == {"none", "transaction"}

InitRun ==
  /\ \E t \in Transactions : QueryStart(t)
  /\ belongsTo = AuthorRelation
  /\ reads = NoReads
  /\ load = NoLoad
  /\ InstanceInit
  /\ RestInit

\* executions of queries made inside and outside a transaction
SpecRun == InitRun /\ [][NextExec]_vars

\* every scheduled callback runs, and the adapter answers every invocation
FairExec == SpecExec /\ WF_vars(ChainStep) /\ WF_vars(AdapterStep)

Associations ==
  { <<"author">>, <<"editor">>, <<"parent">>, <<"comments", "author">>,
    <<"parent", "author">> }

RawTables == {"users", "author"}

NextJoin ==
  \/ \E q \in live, a \in Associations : JoinAssociation(q, a)
  \/ \E q \in live, t \in RawTables : RawJoin(q, t, "left")
  \/ \E q \in live : Clone(q, MaxChained)

InitModel == Init /\ queries[1].type = "ModelQuery"

SpecJoin == InitModel /\ [][NextJoin]_vars

\* callers that await the query itself: every call is a then()
NextThen ==
  \/ \E q \in live : Call(q, "then")
  \/ \E q \in live : Clone(q, MaxQueries)
  \/ ChainStep
  \/ AdapterStep

SpecThen == Init /\ [][NextThen]_vars

SpawnTypes == {"BaseQuery", "ModelQuery"}

SpawnArguments(type) == IF type = "ModelQuery" THEN <<"Article">> ELSE <<>>

NextSpawn ==
  \/ \E q \in live, type \in SpawnTypes : Spawn(q, type, SpawnArguments(type))
  \/ \E q \in live, via \in {"execute", "then"} : Call(q, via)
  \/ ChainStep
  \/ AdapterStep

SpecSpawn == Init /\ [][NextSpawn]_vars

RelationNames == {Str("plain", <<"author">>), Str("camel", <<"lead", "author">>)}

ClassNames == {Str("pascal", <<"article">>), Str("pascal", <<"blog", "post">>)}

OptionValues(opt) ==
  CASE opt = "inverse" -> {undefined, pluralize(Str("plain", <<"post">>))}
    [] opt = "primaryKey" -> {undefined, Str("plain", <<"uid">>)}
    [] opt = "foreignKey" -> {undefined, Str("snake", <<"writer", "key">>)}

InitBelongsTo ==
  /\ QueryInit
  /\ queries[1].type = "BaseQuery"
  /\ \E name \in RelationNames, class \in ClassNames :
       \E options \in [RelationOptions -> UNION {OptionValues(o) : o \in RelationOptions}] :
         /\ \A o \in RelationOptions : options[o] \in OptionValues(o)
         /\ belongsTo = [relation |-> BelongsTo(name, options), modelClassName |-> class]
  /\ reads = NoReads
  /\ load = NoLoad
  /\ InstanceInit
  /\ RestInit

NextBelongsTo ==
  \/ \E prop \in RelationProperties : ReadRelationProperty(prop)
  \/ \E opt \in RelationOptions : \E v \in OptionValues(opt) : SetOption(opt, v)
  \/ \E n \in ClassNames : RenameClass(n)

SpecBelongsTo == InitBelongsTo /\ [][NextBelongsTo]_vars

RECURSIVE RowsUpTo(_)
\* the lists of at most n foreign keys (null among them)
RowsUpTo(n) ==
  IF n = 0 THEN {<<>>}
  ELSE LET shorter == RowsUpTo(n - 1)
       IN shorter \cup {Append(r, k) : r \in shorter, k \in Keys \cup {Null}}

InitLoad ==
  /\ QueryInit
  /\ queries[1].type = "BaseQuery"
  /\ belongsTo = AuthorRelation
  /\ reads = NoReads
  /\ \E users \in SUBSET Keys :
       \/ \E table \in RowsUpTo(MaxRows) : load = Load("with", table, Null, users)
       \/ \E instance \in Keys : load = Load("fetch", <<>>, instance, users)
  /\ InstanceInit
  /\ RestInit

NextLoad ==
  \/ IssuePrimary
  \/ \E ok \in BOOLEAN : PrimaryAnswered(ok)
  \/ Prefetch
  \/ \E ok \in BOOLEAN : PrefetchAnswered(ok)
  \/ Associate
  \/ FetchRelated
  \/ \E ok \in BOOLEAN : FetchAnswered(ok)

SpecLoad == InitLoad /\ [][NextLoad]_vars

\* the objects a caller assigns: a stored User, one not stored yet, none
RelatedObjects == {User(k, TRUE) : k \in Keys} \cup {User(Null, FALSE), NoObject}

InitInstance ==
  /\ QueryInit
  /\ queries[1].type = "BaseQuery"
  /\ belongsTo = AuthorRelation
  /\ reads = NoReads
  /\ load = NoLoad
  /\ \E key \in Keys \cup {Null} : article = Fresh(key)
  /\ executed = <<>>
  /\ operation = Idle
  /\ RestInit

NextInstance ==
  \/ ReadAuthor
  \/ FetchAuthor
  \/ \E ok \in BOOLEAN, found \in BOOLEAN : FetchAuthorAnswered(ok, found)
  \/ CreateAuthor
  \/ \E o \in RelatedObjects : SetAuthor(o)
  \/ \E o \in RelatedObjects : (o.persisted \/ ~o.exists) /\ AssociateFetched(o)
  \/ \E value \in Keys : SetAuthorId(value)
  \/ Save
  \/ \E ok \in BOOLEAN : InsertAnswered(ok)
  \/ \E ok \in BOOLEAN : UpdateAnswered(ok)

SpecInstance == InitInstance /\ [][NextInstance]_vars

\* names of methods and properties a relation kind may publish
MethodNames ==
  << <<Placeholder("<singular>")>>,
     <<Placeholder("<singular>"), Text("Id")>>,
     <<Text("fetch"), Placeholder("<Singular>")>>,
     <<Placeholder("<plural>"), Text("Where")>>,
     <<Text("save"), Placeholder("<Plural>")>>,
     <<Text("reload")>>,
     <<Placeholder("<singular>"), Text("Of"), Placeholder("<Singular>")>>,
     <<Placeholder("<singular>"), Text("Or"), Placeholder("<singular>")>> >>

RECURSIVE Pick(_, _)
\* the entries at the chosen indices, in the order of the table they come from
Pick(chosen, i) ==
  IF i = 0 THEN <<>>
  ELSE IF i \in chosen
  THEN Append(Pick(chosen, i - 1), [key |-> MethodNames[i], callable |-> i])
  ELSE Pick(chosen, i - 1)

\* the static `methods` tables of relation kinds: at most MaxMethods entries
MethodTables ==
  {Pick(chosen, Len(MethodNames)) :
     chosen \in {c \in SUBSET (1..Len(MethodNames)) : Cardinality(c) <= MaxMethods}}

MemberNames ==
  {Str("plain", <<"author">>), pluralize(Str("plain", <<"comment">>)),
   Str("camel", <<"lead", "author">>)}

InitMethods ==
  /\ QueryInit
  /\ queries[1].type = "BaseQuery"
  /\ belongsTo = AuthorRelation
  /\ reads = NoReads
  /\ load = NoLoad
  /\ InstanceInit
  /\ mysql = NoMySQL
  /\ \E name \in MemberNames, table \in MethodTables :
       members = [NoMembers EXCEPT !.pc = "defined", !.name = name, !.table = table]

NextMethods == Methods

SpecMethods == InitMethods /\ [][NextMethods]_vars

Columns == {"title", "body"}

\* the values of conditions: strings, with and without LIKE wildcards, and
\* regular expressions
Texts == 1..MaxTexts

ConditionValues(p) ==
  {Value("string", t, wild) : t \in Texts, wild \in BOOLEAN}
  \cup (IF p \in {"regex", "iRegex"}
        THEN {Value("regexp", t, FALSE) : t \in Texts} ELSE {})

\* what the driver answers: the packet of an insert, update or delete, or
\* selected rows with their fields
DriverAnswers ==
  {[rows |-> OkPacket(id), fields |-> NoFields] : id \in 0..MaxKey}
  \cup {[rows |-> RowData([i \in 1..n |-> i]), fields |-> Fields(<<"id", "title">>)] :
          n \in 0..MaxRows}

InitMySQL ==
  /\ QueryInit
  /\ queries[1].type = "BaseQuery"
  /\ belongsTo = AuthorRelation
  /\ reads = NoReads
  /\ load = NoLoad
  /\ InstanceInit
  /\ RestInit

NextMySQL ==
  \/ \E p \in Predicates, column \in Columns :
       \E v \in ConditionValues(p) : Translate(p, column, v)
  \/ Query
  \/ \E a \in DriverAnswers : QueryAnswered(a.rows, a.fields)
  \/ QueryFailed
  \/ DeliverResult

SpecMySQL == InitMySQL /\ [][NextMySQL]_vars

RECURSIVE CharsUpTo(_)
\* the strings of at most n characters, letters and backslashes
CharsUpTo(n) ==
  IF n = 0 THEN {<<>>}
  ELSE CharsUpTo(n - 1) \cup
       {Append(c, x) : c \in {d \in CharsUpTo(n - 1) : Len(d) = n - 1}, x \in {"a", Backslash}}

EscapedValues ==
  {StringValue(c) : c \in CharsUpTo(MaxChars)} \cup {NumberValue(n) : n \in 0..1}

OptionNumbers == {NotGiven} \cup {Given(n) : n \in 0..MaxPrecision}

DecimalOptions ==
  {Unspecified} \cup {Options(p, sc) : p \in OptionNumbers, sc \in OptionNumbers}

NextDialect ==
  \/ \E v \in EscapedValues : Escape(v)
  \/ \E column \in Columns, day \in {Weekdays[i] : i \in 1..Len(Weekdays)} :
       TranslateWeekday(column, day)
  \/ \E options \in DecimalOptions : TypeForDecimal(options)

\* the grammar and the translator of the MySQL adapter, called with values
SpecDialect == InitMySQL /\ [][NextDialect]_vars

\* the names relations are defined under, singular and plural
DefinedNames ==
  {Str("plain", <<"user">>), pluralize(Str("plain", <<"user">>)),
   Str("plain", <<"author">>), pluralize(Str("plain", <<"comment">>))}

DefinitionArguments ==
  {ClassArgument(db_model(Str("plain", <<"user">>))),
   StringArgument(Str("plain", <<"user">>)),
   StringArgument(pluralize(Str("plain", <<"comment">>))),
   ObjectArgument("options"), UndefinedArgument}

RECURSIVE ArgumentsUpTo(_)
ArgumentsUpTo(n) ==
  IF n = 0 THEN {<<>>}
  ELSE ArgumentsUpTo(n - 1) \cup
       {Append(a, x) : a \in {b \in ArgumentsUpTo(n - 1) : Len(b) = n - 1},
                       x \in DefinitionArguments}

NextDefine ==
  \E name \in DefinedNames, arguments \in ArgumentsUpTo(MaxArguments) :
    Define(name, arguments)

\* relations defined with every shape of arguments
SpecDefine == InitMySQL /\ [][NextDefine]_vars

NextRead == CallerRead \/ ChainStep \/ AdapterStep

SpecRead == Init /\ [][NextRead]_vars

\* all operations together; the properties are checked under the component
\* specifications
Next == NextExec \/ NextJoin \/ NextRead \/ NextThen \/ NextSpawn \/ NextBelongsTo
        \/ NextLoad \/ NextInstance \/ NextMySQL \/ NextMethods \/ NextDialect
        \/ NextDefine

Spec == Init /\ [][Next]_vars

-----------------------------------------------------------------------------
(* Properties of chaining and joins (SpecJoin) *)

IsPrefix(a, b) == Len(a) <= Len(b) /\ a = SubSeq(b, 1, Len(a))

JoinsOf(q) == Render(queries[q]).sql.joins

LastJoin(i) == queries[i]._joins[Len(queries[i]._joins)]

JoinOp(p) == [op |-> "join", arg |-> p]

\* query i was made by _joinRelation called on query origin[i]
AssocJoined(i) ==
  /\ origin[i] # 0
  /\ Len(queries[i]._joins) = Len(queries[origin[i]]._joins) + 1
  /\ LastJoin(i).on.rel # "none"

\* the names the query's bookkeeping holds: primary table and recorded aliases
UsedNames(qr) ==
  {tableName(qr._model)} \cup
  {qr._joinedRelations[k].as : k \in DOMAIN qr._joinedRelations}

\* C2: a query handed to a caller renders the same statement after any chain
\* of joins and clones made on it or on its descendants, and every chaining
\* operation returns an instance other than its receiver.
C2_OriginalUnchanged ==
  /\ \A q \in live : statement(queries[q]) = handed[q]
  /\ lastOp.ret # lastOp.recv

C2_Witness ==
  \E q \in live, d \in live, e \in live :
    /\ lineage[d] = Append(lineage[q], JoinOp(<<"comments", "author">>))
    /\ lineage[e] = Append(lineage[d], [op |-> "rawjoin", arg |-> <<"users">>])
    /\ Len(JoinsOf(e)) = 3
    /\ Len(JoinsOf(d)) = 2
    /\ Len(JoinsOf(q)) = Len(lineage[q])

\* C4: q.join(p).join(p) renders exactly one join clause and one alias for p:
\* the second join adds nothing to the statement of the first.
C4_SamePathJoinedOnce ==
  \A a \in live, b \in live, p \in Associations :
    ( /\ lineage[a] # <<>>
      /\ lineage[a][Len(lineage[a])] = JoinOp(p)
      /\ lineage[b] = Append(lineage[a], JoinOp(p)) )
    => /\ JoinsOf(b) = JoinsOf(a)
       /\ queries[b]._joinedRelations = queries[a]._joinedRelations

OnlyAssociationJoins(l) == \A i \in 1..Len(l) : l[i].op # "rawjoin"

KeyPathsAt(l, i) ==
  IF l[i].op = "join" THEN {SubSeq(l[i].arg, 1, k) : k \in 1..Len(l[i].arg)} ELSE {}

\* no key path is joined by two operations of the lineage
NoPathRejoined(l) ==
  \A i \in 1..Len(l), j \in 1..Len(l) : i # j => KeyPathsAt(l, i) \cap KeyPathsAt(l, j) = {}

AliasesDistinct(q) ==
  LET js == JoinsOf(q)
  IN /\ \A i \in 1..Len(js), j \in 1..Len(js) : i # j => js[i].as # js[j].as
     /\ \A i \in 1..Len(js) : js[i].as # tableName(queries[q]._model)

\* C5: after any sequence of association joins no two join clauses share a
\* table name/alias and none is the primary table name.
C5_NoAliasCollision ==
  \A q \in live : OnlyAssociationJoins(lineage[q]) => AliasesDistinct(q)

\* what does hold of the code: aliases are distinct as long as no key path is
\* joined a second time (the case in which C4 fails)
C5_DistinctWithoutRejoin ==
  \A q \in live :
    (OnlyAssociationJoins(lineage[q]) /\ NoPathRejoined(lineage[q])) => AliasesDistinct(q)

LastOf(i) == lineage[i][Len(lineage[i])]

\* the join clauses the last operation added to its receiver's
AddedJoins(recv, ret) ==
  SubSeq(queries[ret]._joins, Len(queries[recv]._joins) + 1, Len(queries[ret]._joins))

\* C13: a join with one argument is a join by association: one clause and one
\* map entry per segment of the path, each for the relation the model's
\* relations give for it; a join with more arguments is a plain join: one
\* clause on the table given, no relation consulted and the JoinedRelations
\* map left as it was, also when the table given bears a relation's name.
C13_JoinByArgumentCount ==
  LET recv == lastOp.recv
      ret == lastOp.ret
  IN /\ lastOp.op = "join" =>
          LET p == LastOf(ret).arg
              added == AddedJoins(recv, ret)
          IN /\ Len(added) = Len(p)
             /\ IsPrefix(queries[recv]._joins, queries[ret]._joins)
             /\ \A k \in 1..Len(p) :
                  LET rel == _lookupRelation(queries[recv], SubSeq(p, 1, k))
                  IN /\ added[k].on.rel = rel._name
                     /\ added[k].table = tableName(rel.relatedModelClass)
                     /\ SubSeq(p, 1, k) \in DOMAIN queries[ret]._joinedRelations
                     /\ queries[ret]._joinedRelations[SubSeq(p, 1, k)].relation = rel
     /\ lastOp.op = "rawjoin" =>
          LET t == LastOf(ret).arg[1]
          IN /\ queries[ret]._joinedRelations = queries[recv]._joinedRelations
             /\ queries[ret]._joins =
                  Append(queries[recv]._joins,
                         [table |-> Name(t), as |-> Name(t), type |-> "left",
                          on |-> [rel |-> "none",
                                  base |-> tableName(queries[recv]._model),
                                  related |-> Name(t)]])

Prefixes(p) == {SubSeq(p, 1, k) : k \in 1..Len(p)}

\* C14: when a path is joined, the condition of its first segment has the
\* query's primary table as base table and the condition of each later
\* segment has as base table the alias under which the preceding segment was
\* joined; the map holds, for each segment walked, the alias of its join and
\* its relation, and is otherwise the receiver's.
C14_BaseTableThroughAlias ==
  lastOp.op = "join" =>
    LET recv == lastOp.recv
        ret == lastOp.ret
        p == LastOf(ret).arg
        added == AddedJoins(recv, ret)
        map == queries[ret]._joinedRelations
    IN /\ Len(added) = Len(p)
       /\ added[1].on.base = tableName(queries[recv]._model)
       /\ \A k \in 2..Len(p) : added[k].on.base = added[k - 1].as
       /\ \A k \in 1..Len(p) :
            /\ added[k].on.related = added[k].as
            /\ map[SubSeq(p, 1, k)] =
                 [as |-> added[k].as,
                  relation |-> _lookupRelation(queries[recv], SubSeq(p, 1, k))]
       /\ DOMAIN map = DOMAIN queries[recv]._joinedRelations \cup Prefixes(p)
       /\ \A key \in DOMAIN queries[recv]._joinedRelations \ Prefixes(p) :
            map[key] = queries[recv]._joinedRelations[key]

C14_Witness ==
  /\ lastOp.op = "join"
  /\ LastOf(lastOp.ret).arg = <<"parent", "author">>
  /\ LET added == AddedJoins(lastOp.recv, lastOp.ret)
     IN /\ added[1].table = Name("articles")
        /\ added[1].as = Name("parent")
        /\ added[2].on.base = Name("parent")
        /\ added[2].as = Name("author")
        /\ queries[lastOp.ret]._joinedRelations[<<"parent", "author">>].as = Name("author")

JoinedRelationsOf(i) == queries[i]._joinedRelations

\* C15: a duplicate starts with the entries of its parent's map (a join adds
\* those of the path it walks), in a map object of its own; no step changes
\* the map of a query that exists, so what is added on one query never shows
\* in its parent's map nor in the map of any other descendant of the parent.
C15_MapCopiedNotShared ==
  /\ [](/\ lastOp.op \in {"clone", "rawjoin"} =>
            JoinedRelationsOf(lastOp.ret) = JoinedRelationsOf(lastOp.recv)
        /\ lastOp.op = "join" =>
            \A key \in DOMAIN JoinedRelationsOf(lastOp.recv) \ Prefixes(LastOf(lastOp.ret).arg) :
              /\ key \in DOMAIN JoinedRelationsOf(lastOp.ret)
              /\ JoinedRelationsOf(lastOp.ret)[key] = JoinedRelationsOf(lastOp.recv)[key])
  /\ [][\A i \in 1..Len(queries) :
          queries'[i]._joinedRelations = queries[i]._joinedRelations]_vars

C15_Witness ==
  \E q \in live, d \in live, e \in live :
    /\ lineage[d] = Append(lineage[q], JoinOp(<<"author">>))
    /\ lineage[e] = Append(lineage[q], JoinOp(<<"comments", "author">>))
    /\ <<"editor">> \in DOMAIN JoinedRelationsOf(q)
    /\ DOMAIN JoinedRelationsOf(d) = DOMAIN JoinedRelationsOf(q) \cup {<<"author">>}
    /\ DOMAIN JoinedRelationsOf(e) =
         DOMAIN JoinedRelationsOf(q) \cup {<<"comments">>, <<"comments", "author">>}
    /\ <<"author">> \notin DOMAIN JoinedRelationsOf(q)
    /\ <<"comments">> \notin DOMAIN JoinedRelationsOf(q)

C13_Witness ==
  /\ lastOp.op = "rawjoin"
  /\ LastOf(lastOp.ret).arg = <<"author">>
  /\ queries[lastOp.recv]._model = "Article"
  /\ <<"comments", "author">> \in DOMAIN queries[lastOp.recv]._joinedRelations
  /\ <<"author">> \notin DOMAIN queries[lastOp.ret]._joinedRelations
  /\ Len(queries[lastOp.ret]._joins) = 3

-----------------------------------------------------------------------------
(* Properties of execution (SpecExec, SpecRead, FairExec) *)

Entry(ev, val) == [ev |-> ev, val |-> val]

AdapterCalls(q) == Cardinality({i \in 1..Len(adapterLog) : adapterLog[i].q = q})

CallsOn(q) == {k \in 1..Len(calls) : calls[k].q = q}

Renders(q) == ~statement(queries[q]).thrown

Outcome(q) == promises[queries[q]._promise]

\* what the adapter answered to query q's execution, if it did
Answered(q, r) == \E i \in 1..Len(log[q]) : log[q][i] = Entry("respond", r.value)

\* the log of q without the rendering and the 'rawResult' notification
Steps(q) == SelectSeq(log[q], LAMBDA e : e.ev \notin {"render", "rawResult"})

SuccessSteps(v) ==
  << Entry("executed", "true"), Entry("execute", "none"), Entry("invoke", "none"),
     Entry("respond", v), Entry("result", v), Entry("fulfilled", v) >>

FailureSteps(e) ==
  << Entry("executed", "true"), Entry("execute", "none"), Entry("invoke", "none"),
     Entry("respond", e), Entry("error", e), Entry("rejected", e) >>

\* C1: whatever the number and timing of execute()/then() calls on a query,
\* the adapter is invoked at most once for it, exactly once by the time a
\* rendering query's outcome is settled and never when rendering throws; all
\* callers that have observed an outcome observed the same one, the query's.
C1_ExecuteOnce ==
  \A q \in live :
    /\ AdapterCalls(q) <= 1
    /\ (Renders(q) /\ Outcome(q).state # "pending") => AdapterCalls(q) = 1
    /\ ~Renders(q) => AdapterCalls(q) = 0
    /\ \A k \in CallsOn(q), m \in CallsOn(q) :
         (calls[k].out.state # "pending" /\ calls[m].out.state # "pending")
           => calls[k].out = calls[m].out
    /\ \A k \in CallsOn(q) :
         (Renders(q) /\ calls[k].out.state # "pending") => calls[k].out = Outcome(q)

C1_Witness ==
  \E q \in live :
    /\ Cardinality(CallsOn(q)) >= 2
    /\ \A k \in CallsOn(q) : calls[k].out = Fulfilled("rows")
    /\ AdapterCalls(q) = 1

\* C3: a clone starts unexecuted with an unresolved outcome whatever state
\* its original is in: a query's executed flag and outcome come from its own
\* execute() and its own adapter response only, each query that settles has
\* had its own single adapter invocation.
C3_CloneIsFresh ==
  \A q \in live :
    /\ queries[q]._executed = (\E i \in 1..Len(log[q]) : log[q][i].ev = "executed")
    /\ Outcome(q) =
         IF \E i \in 1..Len(log[q]) : log[q][i].ev \in {"fulfilled", "rejected"}
         THEN LET i == CHOOSE i \in 1..Len(log[q]) : log[q][i].ev \in {"fulfilled", "rejected"}
              IN [state |-> log[q][i].ev, value |-> log[q][i].val]
         ELSE Pending
    /\ CallsOn(q) = {} => (~queries[q]._executed /\ Outcome(q) = Pending)
    /\ AdapterCalls(q) <= 1
    /\ (Renders(q) /\ Outcome(q).state # "pending") => AdapterCalls(q) = 1

C3_Witness ==
  \E q \in live, c \in live :
    /\ origin[c] = q
    /\ lineage[c] = Append(lineage[q], [op |-> "clone", arg |-> <<>>])
    /\ Outcome(q) = Fulfilled("rows")
    /\ Outcome(c) = Rejected("err")
    /\ AdapterCalls(q) = 1
    /\ AdapterCalls(c) = 1

\* C7: when the adapter answers with rows, the steps of the query are, in
\* order and once each: flag set, 'execute' emitted, adapter invoked, adapter
\* answered, 'result' emitted, outcome fulfilled; no 'error' is emitted.
C7_SuccessOrder ==
  \A q \in live, v \in Results :
    Answered(q, Fulfilled(v)) =>
      /\ IsPrefix(Steps(q), SuccessSteps(v))
      /\ Outcome(q).state # "pending" => (Outcome(q) = Fulfilled(v) /\ Steps(q) = SuccessSteps(v))
      /\ \A k \in CallsOn(q) :
           calls[k].out.state # "pending" => Steps(q) = SuccessSteps(v)

C7_Witness ==
  \E q \in live :
    /\ Steps(q) = SuccessSteps("rows")
    /\ Cardinality(CallsOn(q)) >= 2
    /\ Outcome(q) = Fulfilled("rows")

\* C8: when the adapter fails, the outcome is rejected with the adapter's
\* error, one 'error' carrying it is emitted, no 'result' is, and the adapter
\* is not invoked again, also by later execute()/then() calls.
C8_AdapterFailure ==
  \A q \in live, e \in Errors :
    Answered(q, Rejected(e)) =>
      /\ IsPrefix(Steps(q), FailureSteps(e))
      /\ Outcome(q).state # "pending" => (Outcome(q) = Rejected(e) /\ Steps(q) = FailureSteps(e))
      /\ \A i \in 1..Len(log[q]) : log[q][i].ev \notin {"result", "rawResult"}
      /\ AdapterCalls(q) = 1
      /\ \A k \in CallsOn(q) :
           calls[k].out.state # "pending" => calls[k].out = Rejected(e)

C8_Witness ==
  \E q \in live :
    /\ Steps(q) = FailureSteps("err")
    /\ Cardinality(CallsOn(q)) >= 2
    /\ \A k \in CallsOn(q) : calls[k].out = Rejected("err")
    /\ AdapterCalls(q) = 1

\* the execution of q failed: rendering threw, or the adapter failed
Failed(q) ==
  \/ queries[q]._executed /\ ~Renders(q)
  \/ \E e \in Errors : Answered(q, Rejected(e))

\* C9: every execute()/then() call on a query whose execution fails
\* eventually observes a rejected outcome.
C9_EveryCallerSeesFailure ==
  \A k \in 1..MaxCalls :
    (k <= Len(calls) /\ Failed(calls[k].q))
      ~> (k <= Len(calls) /\ calls[k].out.state = "rejected")

\* what does hold of the code: callers of a query that renders and whose
\* adapter fails all observe the rejection
C9_AdapterFailuresSurface ==
  \A k \in 1..MaxCalls :
    (k <= Len(calls) /\ Renders(calls[k].q) /\ Failed(calls[k].q))
      ~> (k <= Len(calls) /\ calls[k].out.state = "rejected")

\* C10: reading statement, sql or args of a query of the base type throws
\* 'BaseQuery cannot be used directly.'; reads never execute the query: a
\* base query on which execute()/then() was not called stays unexecuted, and
\* a base query's outcome stays unresolved and its adapter uncontacted.
C10_BaseStatementThrows ==
  /\ (lastRead.q # 0 /\ queries[lastRead.q].type = "BaseQuery")
       => lastRead.result = Thrown(BaseQueryError)
  /\ \A q \in live :
       queries[q].type = "BaseQuery" =>
         /\ CallsOn(q) = {} => ~queries[q]._executed
         /\ Outcome(q) = Pending
         /\ AdapterCalls(q) = 0
         /\ \A c \in 1..Len(chains) : chains[c].q # q

C10_Witness ==
  /\ lastRead.q # 0
  /\ queries[lastRead.q].type = "BaseQuery"
  /\ lastRead.prop = "sql"
  /\ lastRead.result.thrown
  /\ CallsOn(lastRead.q) = {}
  /\ ~queries[lastRead.q]._executed

ChainsOf(q) == Cardinality({c \in 1..Len(chains) : chains[c].q = q})

\* C11: q.then(f, r) does what q.execute().then(f, r) does: on an unexecuted
\* query it starts the execution (one chain, one adapter invocation), on an
\* executing or settled query it starts nothing, and the handlers receive
\* what the promise of execute() carries: the query's outcome (for a query
\* whose rendering throws, the first call's rejection with the thrown error).
C11_ThenIsExecuteThen ==
  \A q \in live :
    /\ then(World, chains, q) = execute(World, chains, q)
    /\ CallsOn(q) # {} => queries[q]._executed
    /\ ChainsOf(q) = (IF CallsOn(q) # {} /\ Renders(q) THEN 1 ELSE 0)
    /\ AdapterCalls(q) <= 1
    /\ \A k \in CallsOn(q) :
         calls[k].out.state # "pending" =>
           calls[k].out = (IF Renders(q) THEN Outcome(q) ELSE Rejected(BaseQueryError))

C11_Witness ==
  \E q \in live :
    /\ Cardinality(CallsOn(q)) >= 2
    /\ ChainsOf(q) = 1
    /\ AdapterCalls(q) = 1
    /\ Outcome(q) = Fulfilled("rows")
    /\ \A k \in CallsOn(q) : calls[k].out = Outcome(q)

-----------------------------------------------------------------------------
(* Properties of spawning (SpecSpawn) *)

Spawned(i) ==
  /\ i \in live
  /\ lineage[i] # <<>>
  /\ lineage[i][Len(lineage[i])].op = "spawn"

\* the positions of the log of query i that hold step ev
Positions(i, ev) == {n \in 1..Len(log[i]) : log[i][n].ev = ev}

InitsOf(i, m) == Cardinality({n \in Positions(i, "init") : log[i][n].val = m})

InSeq(x, seq) == \E n \in 1..Len(seq) : seq[n] = x

\* C12: a spawned query was made by these steps in this order: created as an
\* instance of the target type; the init of each mixin that the target type
\* has, the parent type lacks and that defines one, once each, and of no other
\* mixin; the parent's _take; the target's _create with the arguments.  It is
\* unexecuted with its own unresolved outcome until it is itself executed.
C12_SpawnOrder ==
  \A i \in 1..Len(queries) :
    Spawned(i) =>
      LET type == queries[i].type
          parent == queries[origin[i]].type
          np == Cardinality(Positions(i, "init")) + 3
      IN /\ Len(log[i]) >= np
         /\ log[i][1] = Entry("new", type)
         /\ Positions(i, "init") = 2..(np - 2)
         /\ log[i][np - 1] = Entry("_take", parent)
         /\ log[i][np] = Entry("_create", CreateArg(SpawnArguments(type)))
         /\ \A m \in {"Transaction", "Transform", "Join", "ModelJoin"} :
              InitsOf(i, m) =
                (IF /\ InSeq(m, __mixins__(type))
                    /\ ~InSeq(m, __mixins__(parent))
                    /\ m \in MixinsWithInit
                 THEN 1 ELSE 0)
         /\ queries[i]._promise = i
         /\ queries[i]._adapter = queries[origin[i]]._adapter
         /\ CallsOn(i) = {} => (~queries[i]._executed /\ Outcome(i) = Pending)

C12_Witness ==
  \E i \in 1..Len(queries) :
    /\ Spawned(i)
    /\ queries[i].type = "ModelQuery"
    /\ queries[origin[i]].type = "BaseQuery"
    /\ InitsOf(i, "Join") = 1
    /\ queries[origin[i]]._executed
    /\ calls # <<>> /\ calls[1].out = Rejected(BaseQueryError)
    /\ ~queries[i]._executed
    /\ Outcome(i) = Pending

C12_WitnessSettledParent ==
  \E i \in 1..Len(queries) :
    /\ Spawned(i)
    /\ Outcome(origin[i]) = Fulfilled("rows")
    /\ CallsOn(i) = {}
    /\ ~queries[i]._executed
    /\ Outcome(i) = Pending

-----------------------------------------------------------------------------
(* Properties of the belongs-to configuration (SpecBelongsTo) *)

\* C16: a read of foreignKey, primaryKey, inverse or foreignKeyProperty
\* returns what the first read of that property returned, whatever was done
\* to the options or to the name of the model class in between.
C16_FirstReadIsKept ==
  reads.last.prop # "none" => reads.last.value = reads.first[reads.last.prop]

C16_Witness ==
  /\ reads.last.prop = "inverse"
  /\ reads.first["inverse"] = pluralize(Str("plain", <<"article">>))
  /\ reads.last.value = reads.first["inverse"]
  /\ belongsTo.modelClassName = Str("pascal", <<"blog", "post">>)
  /\ Truthy(belongsTo.relation._options.inverse)
  /\ Truthy(belongsTo.relation._options.foreignKey)
  /\ reads.first["foreignKey"] = Str("snake", <<"author", "id">>)

Cached(b, prop) ==
  CASE prop = "inverse" -> b.relation._inverse
    [] prop = "primaryKey" -> b.relation._primaryKey
    [] prop = "foreignKey" -> b.relation._foreignKey
    [] prop = "foreignKeyProperty" -> b.relation._foreignKeyProperty

OptionOr(b, opt, default) ==
  IF Truthy(b.relation._options[opt]) THEN b.relation._options[opt] ELSE default

\* what a property not yet derived is to be, for relation and class as they are
Derived(b, prop) ==
  CASE prop = "inverse" -> OptionOr(b, "inverse", pluralize(camelCase(b.modelClassName)))
    [] prop = "primaryKey" -> OptionOr(b, "primaryKey", Str("plain", <<"id">>))
    [] prop = "foreignKey" ->
         OptionOr(b, "foreignKey", snakeCase(WithIdSuffix(b.relation._name)))
    [] prop = "foreignKeyProperty" ->
         camelCase(IF Truthy(b.relation._foreignKey) THEN b.relation._foreignKey
                   ELSE OptionOr(b, "foreignKey", snakeCase(WithIdSuffix(b.relation._name))))

\* C17: a property read for the first time is the option given for it, or
\* without one: foreignKey the snake-cased name + '_id', primaryKey 'id',
\* inverse the pluralized camel-cased name of the owning class;
\* foreignKeyProperty is the camel-cased foreignKey.
C17_DefaultsAndOptions ==
  [][\A prop \in RelationProperties :
       (reads' # reads /\ reads'.last.prop = prop /\ ~Truthy(Cached(belongsTo, prop)))
         => reads'.last.value = Derived(belongsTo, prop)]_vars

C17_Witness ==
  /\ belongsTo.relation._name = Str("camel", <<"lead", "author">>)
  /\ belongsTo.modelClassName = Str("pascal", <<"blog", "post">>)
  /\ belongsTo.relation._options = NoOptions
  /\ reads.first["foreignKey"] = Str("snake", <<"lead", "author", "id">>)
  /\ reads.first["primaryKey"] = Str("plain", <<"id">>)
  /\ reads.first["inverse"] = pluralize(Str("camel", <<"blog", "post">>))
  /\ reads.first["foreignKeyProperty"] = Str("camel", <<"lead", "author", "id">>)

-----------------------------------------------------------------------------
(* Properties of fetch and pre-fetch of a belongs-to relation (SpecLoad) *)

\* the foreign keys that are set among the fetched rows
KeysOf(rows) == {rows[i] : i \in {j \in 1..Len(rows) : rows[j] # Null}}

\* the primary statement was answered with rows
PrimaryFetched == load.kind = "with" /\ load.completed >= 1

\* the rows whose foreign key is set and has no row in the related table
Missing == {i \in 1..Len(load.rows) : load.rows[i] # Null /\ load.rows[i] \notin load.users}

\* C18: an eager load of the relation over N >= 1 fetched rows with K >= 1
\* distinct keys issues two statements, whatever N: the primary select, then
\* one select of the related rows, issued after the primary was answered.
C18_TwoStatements ==
  load.kind = "with" =>
    /\ Len(load.statements) >= 1 => load.statements[1].table = "articles"
    /\ \A n \in 2..Len(load.statements) :
         /\ load.statements[n].table = "users"
         /\ load.statements[n].issuedAfter = 1
         /\ load.rows = load.table
    /\ (PrimaryFetched /\ Len(load.rows) >= 1 /\ KeysOf(load.rows) # {})
         => Len(load.statements) = (IF load.pc = "primary_done" THEN 1 ELSE 2)
    /\ ~PrimaryFetched => Len(load.statements) <= 1

C18_Witness ==
  /\ load.kind = "with"
  /\ load.pc = "settled"
  /\ load.outcome = Resolved
  /\ load.rows = <<1, 2, 1>>
  /\ Len(load.statements) = 2
  /\ load.statements[2].issuedAfter = 1

\* C19: the related select binds each foreign key that is set exactly once
\* and is limited to their number; when the load is fulfilled every row has
\* the related row whose primary key is its foreign key, or null when its
\* foreign key is null, and no statement was issued besides the two.
C19_BatchedKeysAndAssociation ==
  load.kind = "with" =>
    /\ Len(load.statements) >= 2 =>
         LET st == load.statements[2]
         IN /\ \A i \in 1..Len(st.keys), j \in 1..Len(st.keys) :
                 i # j => st.keys[i] # st.keys[j]
            /\ {st.keys[i] : i \in 1..Len(st.keys)} = KeysOf(load.rows)
            /\ st.limit = Cardinality(KeysOf(load.rows))
            /\ st.column = Str("plain", <<"id">>)
    /\ (load.pc = "settled" /\ load.outcome = Resolved) =>
         /\ Len(load.author) = Len(load.rows)
         /\ \A i \in 1..Len(load.rows) :
              /\ load.author[i] = load.rows[i]
              /\ load.rows[i] # Null => load.rows[i] \in load.users
         /\ Len(load.statements) = (IF KeysOf(load.rows) = {} THEN 1 ELSE 2)

C19_Witness ==
  /\ load.kind = "with"
  /\ load.pc = "settled"
  /\ load.outcome = Resolved
  /\ load.rows = <<2, Null, 2>>
  /\ load.statements[2].keys = <<2>>
  /\ load.statements[2].limit = 1
  /\ load.author = <<2, Null, 2>>

\* C20: a fetch or pre-fetch that finds no related row for a foreign key
\* that is set is rejected with a lookup error naming the related type, the
\* foreign key column and a key that is missing; it is never fulfilled with
\* that relation left without its object.
C20_MissingRelatedRejects ==
  /\ load.outcome.state = "fulfilled" =>
       /\ Missing = {}
       /\ \A i \in 1..Len(load.rows) : load.author[i] = load.rows[i]
  /\ (load.pc = "settled" /\ Missing # {} /\ load.outcome.error.kind # "adapter") =>
       /\ load.outcome.state = "rejected"
       /\ load.outcome.error.kind = "lookup"
       /\ load.outcome.error.type = "User"
       /\ load.outcome.error.column = Str("snake", <<"author", "id">>)
       /\ load.outcome.error.key \in {load.rows[i] : i \in Missing}

C20_Witness ==
  /\ load.kind = "with"
  /\ load.pc = "settled"
  /\ load.rows = <<1, 2>>
  /\ load.users = {1}
  /\ load.outcome = Failing(LookupError("User", Str("snake", <<"author", "id">>), 2))

C20_WitnessFetch ==
  /\ load.kind = "fetch"
  /\ load.pc = "settled"
  /\ load.instance = 2
  /\ load.users = {1}
  /\ load.outcome = Failing(LookupError("User", Str("snake", <<"author", "id">>), 2))


-----------------------------------------------------------------------------
(* Properties of an instance with a belongs-to relation (SpecInstance) *)

\* the operations that store a related object in the instance's cache
Storing == {"createAuthor", "setAuthor", "associate"}

\* C21: a read of article.author while nothing was fetched, pre-fetched,
\* created or assigned gives the 'not yet loaded' error and hands no
\* statement to the adapter; after any of those operations the cache is
\* loaded and the read returns the object it holds; a loaded relation never
\* becomes unloaded again.
C21_UnloadedReadIsAnError ==
  /\ [](/\ operation.last \in Storing => article._author = Loaded(operation.result.returned)
        /\ (operation.last \in {"fetchAuthor", "fetched"} /\ operation.outcome = Resolved)
             => article._author = Loaded(operation.value)
        /\ (~article._author.loaded /\ operation.pc = "idle")
             => (operation.last \in {"none", "author", "setAuthorId", "save", "updated"}
                 \/ operation.outcome.state = "rejected"))
  /\ [][/\ operation'.last = "author" =>
             /\ executed' = executed
             /\ operation'.result =
                  IF article._author.loaded
                  THEN Gave(NoError, article._author.object)
                  ELSE Gave(NotLoadedError(belongsTo.relation._name), NoObject)
        /\ article._author.loaded => article'._author.loaded]_vars

\* a fetch loaded the author, and the read returned it
C21_Witness ==
  /\ operation.last = "author"
  /\ operation.result = Gave(NoError, User(1, TRUE))
  /\ executed = <<SelectUser(1)>>
  /\ article.dirty = {}

\* the read of a relation that was never loaded
C21_WitnessUnloaded ==
  /\ operation.last = "author"
  /\ operation.result.thrown.kind = "not yet loaded"
  /\ executed = <<>>
  /\ ~article._author.loaded

\* C22: fetchAuthor on an instance without a foreign key hands no statement
\* to the adapter, resolves with no object and leaves the relation loaded
\* with no object: the next read returns no object, not the 'not yet loaded'
\* error.
C22_FetchWithoutKey ==
  [][/\ (operation'.last = "fetchAuthor" /\ article.attrs.author_id = Null) =>
          /\ executed' = executed
          /\ operation'.pc = "idle"
          /\ operation'.outcome = Resolved
          /\ operation'.value = NoObject
          /\ article'._author = Loaded(NoObject)
          /\ article'.attrs = article.attrs
          /\ article'.dirty = article.dirty
     /\ (operation.last = "fetchAuthor" /\ operation.pc = "idle"
         /\ operation'.last = "author") =>
          operation'.result = Gave(NoError, NoObject)]_vars

\* the fetch on an instance that was never loaded resolved without a statement
C22_Witness ==
  /\ operation.last = "fetchAuthor"
  /\ operation.pc = "idle"
  /\ operation.outcome = Resolved
  /\ operation.value = NoObject
  /\ article.attrs.author_id = Null
  /\ article._author = Loaded(NoObject)
  /\ article.dirty = {}
  /\ executed = <<>>

\* C23: an assignment to article.authorId always fails with the 'cannot set'
\* error that names authorId, and the foreign-key attribute (with the rest of
\* the instance) is what it was before.
C23_ForeignKeyPropertyReadOnly ==
  [][operation'.last = "setAuthorId" =>
       /\ operation'.result.thrown = CannotSetError(Str("camel", <<"author", "id">>))
       /\ article'.attrs.author_id = article.attrs.author_id
       /\ article' = article
       /\ executed' = executed]_vars

\* the assignment failed on an instance whose foreign key is set
C23_Witness ==
  /\ operation.last = "setAuthorId"
  /\ operation.result.thrown.kind = "cannot set"
  /\ article.attrs.author_id = 1
  /\ article.dirty = {}

\* C24: associate(instance, related, { attrs: false }) changes the relation
\* cache of the instance and nothing else: its attributes and its dirty
\* state stay as they were; with attrs true (an assignment) the foreign-key
\* attribute becomes the related object's key and is dirty, and a save that
\* follows writes that key.
C24_AssociateAttrs ==
  [][/\ operation'.last = "associate" =>
          /\ article'._author = Loaded(operation'.result.returned)
          /\ article'.attrs = article.attrs
          /\ article'.dirty = article.dirty
          /\ article'.id = article.id
          /\ executed' = executed
     /\ operation'.last = "setAuthor" =>
          /\ article'._author = Loaded(operation'.result.returned)
          /\ article'.attrs.author_id = operation'.result.returned.id
          /\ "author_id" \in article'.dirty
          /\ executed' = executed
     /\ (/\ operation.last = "setAuthor"
         /\ operation.result.returned.exists => operation.result.returned.persisted
         /\ operation'.last = "save") =>
          executed' = Append(executed,
                             [kind |-> "update", table |-> "articles",
                              args |-> <<operation.result.returned.id, ArticleId>>])]_vars

\* an object associated with attrs false: the cache holds it, the foreign key
\* is still another key and nothing is dirty
C24_Witness ==
  /\ operation.last = "associate"
  /\ article._author = Loaded(User(2, TRUE))
  /\ article.attrs.author_id = 1
  /\ article.dirty = {}

\* an object assigned and saved: the update carries its key
C24_WitnessSaved ==
  /\ operation.last = "save"
  /\ article._author = Loaded(User(2, TRUE))
  /\ executed = <<[kind |-> "update", table |-> "articles", args |-> <<2, ArticleId>>]>>

Unsaved(o) == o.exists /\ ~o.persisted

\* C25: save() of an instance whose relation holds an unsaved object hands
\* the object's insert to the adapter and nothing else; once the insert is
\* answered with the id it generated, the update of the instance follows it,
\* bound to that id; after the assignment of an object that is already
\* saved, save() hands over the update alone, bound to the object's id.
C25_RelatedSavedFirst ==
  [][/\ (operation'.last = "save" /\ article._author.loaded
         /\ Unsaved(article._author.object)) =>
          /\ executed' = Append(executed, InsertUser)
          /\ operation'.pc = "insert_issued"
     /\ (operation'.last = "inserted" /\ operation'.outcome # Failing(AdapterError)) =>
          /\ executed' = Append(executed,
                                [kind |-> "update", table |-> "articles",
                                 args |-> <<GeneratedId(executed), ArticleId>>])
          /\ article'._author = Loaded(User(GeneratedId(executed), TRUE))
          /\ article'.attrs.author_id = GeneratedId(executed)
     /\ (operation'.last = "inserted" /\ operation'.outcome = Failing(AdapterError)) =>
          executed' = executed
     /\ (/\ operation.last = "setAuthor"
         /\ operation.result.returned.persisted
         /\ operation'.last = "save") =>
          /\ executed' = Append(executed,
                                [kind |-> "update", table |-> "articles",
                                 args |-> <<operation.result.returned.id, ArticleId>>])
          /\ operation'.pc = "update_issued"]_vars

\* a created author was stored by save(): insert, then the update with the
\* generated id, and the save resolved
C25_Witness ==
  /\ operation.last = "updated"
  /\ operation.outcome = Resolved
  /\ executed = <<InsertUser,
                  [kind |-> "update", table |-> "articles",
                   args |-> <<MaxKey + 1, ArticleId>>]>>
  /\ article._author = Loaded(User(MaxKey + 1, TRUE))
  /\ article.dirty = {}

\* an author that was already stored: the update alone
C25_WitnessExisting ==
  /\ operation.last = "updated"
  /\ operation.outcome = Resolved
  /\ executed = <<[kind |-> "update", table |-> "articles", args |-> <<1, ArticleId>>]>>
  /\ article._author = Loaded(User(1, TRUE))

-----------------------------------------------------------------------------
(* Properties of the MySQL translator and adapter (SpecMySQL) *)

\* C26: in the MySQL translator contains, startsWith and endsWith render
\* column LIKE BINARY ?, iContains, iStartsWith and iEndsWith render
\* column LIKE ?, regex renders column REGEXP BINARY ? and iRegex renders
\* column REGEXP ?.
C26_BinaryForCaseSensitive ==
  LET c == mysql.condition
      fragment == mysql.rendered.fragment
  IN /\ c.p \in {"contains", "startsWith", "endsWith"} =>
          fragment = <<c.column, "LIKE", "BINARY", "?">>
     /\ c.p \in {"iContains", "iStartsWith", "iEndsWith"} =>
          fragment = <<c.column, "LIKE", "?">>
     /\ c.p = "regex" => fragment = <<c.column, "REGEXP", "BINARY", "?">>
     /\ c.p = "iRegex" => fragment = <<c.column, "REGEXP", "?">>

\* title$contains was translated
C26_Witness ==
  /\ mysql.condition.p = "contains"
  /\ mysql.condition.column = "title"
  /\ mysql.rendered.fragment = <<"title", "LIKE", "BINARY", "?">>

\* title$iRegex was translated
C26_WitnessIRegex ==
  /\ mysql.condition.p = "iRegex"
  /\ mysql.rendered.fragment = <<"title", "REGEXP", "?">>

CallbackRan == mysql.pc \in {"returned", "delivered"}

\* C28 as stated: whenever the rows the driver hands over carry an insertId,
\* `returning` is called exactly once with it before the result is
\* delivered; it is never called for rows without an insertId; the rows
\* delivered are empty when the driver hands over no fields.
C28_ReturningForEveryInsertId ==
  CallbackRan =>
    /\ mysql.driver.rows.packet => mysql.returning = <<mysql.driver.rows.insertId>>
    /\ ~mysql.driver.rows.packet => mysql.returning = <<>>
    /\ ~mysql.driver.fields.defined => mysql.returned.rows = RowData(<<>>)
    /\ mysql.pc = "delivered" => mysql.delivered = mysql.returned

\* C28 amended: `returning` is called exactly once, with the insertId, before
\* the result is delivered, whenever the rows the driver hands over carry an
\* insertId other than 0; it is not called for rows without an insertId nor
\* for a packet whose insertId is 0 (no id was generated); the rows
\* delivered are empty when the driver hands over no fields, and the rows
\* of the driver otherwise.
C28_ReturningForGeneratedId ==
  /\ [](CallbackRan =>
          /\ (mysql.driver.rows.packet /\ mysql.driver.rows.insertId # 0)
               => mysql.returning = <<mysql.driver.rows.insertId>>
          /\ (~mysql.driver.rows.packet \/ mysql.driver.rows.insertId = 0)
               => mysql.returning = <<>>
          /\ mysql.returned.rows = IF mysql.driver.fields.defined
                                   THEN mysql.driver.rows ELSE RowData(<<>>))
  /\ [](mysql.pc = "delivered" => mysql.delivered = mysql.returned)
  /\ [][mysql.pc = "returned" => mysql'.returning = mysql.returning]_vars

\* an insert that generated id 2 was executed and its result delivered
C28_Witness ==
  /\ mysql.pc = "delivered"
  /\ mysql.driver.rows = OkPacket(2)
  /\ mysql.returning = <<2>>
  /\ mysql.delivered.rows = RowData(<<>>)
  /\ mysql.delivered.fields = <<>>

\* a statement that generated no id: the packet carries insertId 0
C28_WitnessNoId ==
  /\ mysql.pc = "delivered"
  /\ mysql.driver.rows = OkPacket(0)
  /\ mysql.returning = <<>>

\* rows selected, delivered with the names of their fields
C28_WitnessRows ==
  /\ mysql.pc = "delivered"
  /\ mysql.delivered.rows = RowData(<<1, 2>>)
  /\ mysql.delivered.fields = <<"id", "title">>
  /\ mysql.returning = <<>>

-----------------------------------------------------------------------------
(* Properties of the attributes of a relation (SpecMethods) *)

RECURSIVE replaceEach(_, _, _)
\* the string with every occurrence of the placeholder replaced
replaceEach(string, pattern, replacement) ==
  IF string = <<>> THEN <<>>
  ELSE IF Head(string) = Placeholder(pattern)
  THEN <<Form(replacement)>> \o replaceEach(Tail(string), pattern, replacement)
  ELSE <<Head(string)>> \o replaceEach(Tail(string), pattern, replacement)

\* the name of an entry with every placeholder replaced by the form of the
\* relation's name it stands for
Substituted(name, string) ==
  LET singular == singularize(name)
      plural == pluralize(singular)
  IN replaceEach(replaceEach(replaceEach(replaceEach(string, "<singular>", singular),
                                         "<Singular>", capitalize(singular)),
                             "<plural>", plural),
                 "<Plural>", capitalize(plural))

Generated == members.pc = "generated"

\* C29: methods() yields exactly one attribute per entry of the static
\* methods table, keyed by the entry's name with every placeholder replaced
\* by the singular, capitalized singular, plural or capitalized plural form
\* of the relation's name, and valued by the entry's callable applied to the
\* relation; a name without placeholders is left unchanged.
C29_EveryPlaceholderReplaced ==
  Generated =>
    /\ Cardinality(DOMAIN members.attributes) = Len(members.table)
    /\ \A i \in 1..Len(members.table) :
         LET key == Substituted(members.name, members.table[i].key)
         IN /\ key \in DOMAIN members.attributes
            /\ members.attributes[key] =
                 [callable |-> members.table[i].callable, relation |-> members.name]
            /\ \A k \in 1..Len(key) : key[k].kind # "placeholder"
            /\ (\A k \in 1..Len(members.table[i].key) :
                  members.table[i].key[k].kind = "text") => key = members.table[i].key

\* no placeholder stands twice in the name
EachPlaceholderOnce(string) ==
  \A a \in 1..Len(string), b \in 1..Len(string) :
    (a # b /\ string[a].kind = "placeholder") => string[a] # string[b]

\* what does hold of the code: the attributes are as C29 says for a table in
\* whose names no placeholder stands twice
C29_FirstOccurrenceReplaced ==
  (Generated /\ \A i \in 1..Len(members.table) : EachPlaceholderOnce(members.table[i].key))
    => /\ Cardinality(DOMAIN members.attributes) = Len(members.table)
       /\ \A i \in 1..Len(members.table) :
            LET key == Substituted(members.name, members.table[i].key)
            IN /\ key \in DOMAIN members.attributes
               /\ members.attributes[key] =
                    [callable |-> members.table[i].callable, relation |-> members.name]

\* fetch<Singular> and <plural>Where of the relation comments
C29_Witness ==
  /\ Generated
  /\ members.name = pluralize(Str("plain", <<"comment">>))
  /\ Len(members.table) = 2
  /\ <<Text("fetch"), Form(capitalize(Str("plain", <<"comment">>)))>>
       \in DOMAIN members.attributes
  /\ <<Form(pluralize(Str("plain", <<"comment">>))), Text("Where")>>
       \in DOMAIN members.attributes

-----------------------------------------------------------------------------
(* Properties of the names a query holds (SpecJoin) *)

\* every name under which q has a join clause is held by q as in use
JoinedNamesInUse(q) ==
  \A i \in 1..Len(JoinsOf(q)) :
    /\ \E k \in DOMAIN queries[q]._joinedRelations :
         queries[q]._joinedRelations[k].as = JoinsOf(q)[i].as
    /\ _tableInQuery(queries[q], JoinsOf(q)[i].as)

\* C30: in every query reached by association joins alone, every table name
\* or alias under which a join was added is the alias of an entry of the
\* query's _joinedRelations, so _tableInQuery reports it as in use.
C30_JoinedNamesAreHeld ==
  \A q \in live : OnlyAssociationJoins(lineage[q]) => JoinedNamesInUse(q)

\* what does hold of the code: the names are held as long as no key path is
\* joined a second time (the case in which C4 fails)
C30_HeldWithoutRejoin ==
  \A q \in live :
    (OnlyAssociationJoins(lineage[q]) /\ NoPathRejoined(lineage[q])) => JoinedNamesInUse(q)

-----------------------------------------------------------------------------
(* Unique aliases (SpecJoin) *)

\* the base names an alias is asked for: relation names and table names
AliasBases ==
  {r._name : r \in Relations} \cup
  {tableName(r.modelClass).base : r \in Relations} \cup
  {tableName(r.relatedModelClass).base : r \in Relations}

\* C31: for every model query and every name, _uniqueTableAlias ends and gives
\* the name itself when the query does not hold it, otherwise name_jN for the
\* least N >= 1 the query does not hold; the alias is neither the primary
\* table name nor the alias of an entry of _joinedRelations, and the search
\* ends within as many steps as the query holds names.
C31_AliasIsFirstFree ==
  \A i \in 1..Len(queries), name \in AliasBases :
    queries[i]._model # "none" =>
      LET qr == queries[i]
          a == _uniqueTableAlias(qr, name)
          used == UsedNames(qr)
      IN /\ a.base = name
         /\ (Name(name) \notin used) => a = Name(name)
         /\ \A m \in 0..(a.n - 1) : Suffixed(name, m) \in used
         /\ a # tableName(qr._model)
         /\ \A k \in DOMAIN qr._joinedRelations : qr._joinedRelations[k].as # a
         /\ a.n <= Cardinality(used)

\* a query that holds author and author_j1, so that the alias is author_j2,
\* and that does not hold editor, so that the alias is the bare name
C31_Witness ==
  \E i \in 1..Len(queries) :
    /\ queries[i]._model # "none"
    /\ _uniqueTableAlias(queries[i], "author") = Suffixed("author", 2)
    /\ _uniqueTableAlias(queries[i], "editor") = Name("editor")
    /\ _uniqueTableAlias(queries[i], "users") = Suffixed("users", 1)

-----------------------------------------------------------------------------
(* Properties of one execution (SpecRun) *)

\* C32: the statement of an executed query is rendered once, when execute()
\* starts the execution and so before 'execute' is emitted; the adapter is
\* invoked with the sql and args of that statement and with the query's
\* client as the client option; when rendering throws there is one rendering,
\* no 'execute' notification and no adapter invocation.
C32_RenderedOnceThenPassed ==
  \A q \in live :
    /\ Cardinality(Positions(q, "render")) = (IF queries[q]._executed THEN 1 ELSE 0)
    /\ \A i \in Positions(q, "execute") :
         \E r \in Positions(q, "render") : r < i /\ log[q][r].val = "statement"
    /\ \A i \in 1..Len(adapterLog) :
         adapterLog[i].q = q =>
           /\ Positions(q, "execute") # {}
           /\ Returned(adapterLog[i].sql) = sql(queries[q])
           /\ Returned(adapterLog[i].args) = args(queries[q])
           /\ adapterLog[i].options.client =
                (IF queries[q]._transaction = "none" THEN "none"
                 ELSE [of |-> queries[q]._transaction])
    /\ (\E r \in Positions(q, "render") : log[q][r].val = "thrown") =>
         /\ AdapterCalls(q) = 0
         /\ Positions(q, "execute") = {}
         /\ ChainsOf(q) = 0

\* the clone of a query in a transaction was executed: its statement was
\* rendered and the adapter got the transaction's client
C32_Witness ==
  \E q \in live, i \in 1..Len(adapterLog) :
    /\ origin[q] # 0
    /\ adapterLog[i].q = q
    /\ adapterLog[i].options.client = [of |-> "transaction"]
    /\ Positions(q, "render") # {}
    /\ Positions(q, "execute") # {}

\* execute() on a query whose rendering throws
C32_WitnessThrown ==
  \E q \in live :
    /\ \E r \in Positions(q, "render") : log[q][r].val = "thrown"
    /\ queries[q]._executed
    /\ CallsOn(q) # {}

\* C33: the value 'result' is emitted with is the value _execute resolved
\* with (the adapter's response) and the value the query's outcome is then
\* fulfilled with; 'rawResult' is emitted once with the adapter's response,
\* after the adapter answered and before 'result'.
C33_ResultIsTheOutcome ==
  \A q \in live :
    LET res == Positions(q, "result")
        raw == Positions(q, "rawResult")
        rsp == Positions(q, "respond")
    IN /\ Cardinality(raw) <= 1 /\ Cardinality(res) <= 1
       /\ \A r \in raw : \E a \in rsp : a < r /\ log[q][r].val = log[q][a].val
       /\ \A i \in res :
            /\ \E r \in raw : r < i /\ log[q][i].val = log[q][r].val
            /\ Outcome(q) \in {Pending, Fulfilled(log[q][i].val)}
       /\ \A f \in Positions(q, "fulfilled") :
            \E i \in res : i < f /\ log[q][i].val = log[q][f].val
       /\ Outcome(q).state = "fulfilled" =>
            \E i \in res : Outcome(q) = Fulfilled(log[q][i].val)

\* an executed query whose 'result' was emitted and whose outcome stands
\* fulfilled, seen by a caller
C33_Witness ==
  \E q \in live, k \in 1..Len(calls) :
    /\ Positions(q, "rawResult") # {}
    /\ \E i \in Positions(q, "result") : log[q][i].val = "rows"
    /\ Outcome(q) = Fulfilled("rows")
    /\ calls[k].q = q /\ calls[k].out = Fulfilled("rows")

\* C34: on every query instance the executed flag, once true, stays true and
\* is set by one call only, and the instance's outcome, once settled, stays
\* the value or error it was settled with; the instance keeps its outcome
\* slot.
C34_FlagAndOutcomeAreFinal ==
  /\ [](\A i \in 1..Len(queries) :
          /\ Cardinality(Positions(i, "executed")) <= 1
          /\ Cardinality(Positions(i, "fulfilled") \cup Positions(i, "rejected")) <= 1)
  /\ [][\A i \in 1..Len(queries) :
          /\ queries[i]._executed => queries'[i]._executed
          /\ queries'[i]._promise = queries[i]._promise
          /\ promises[queries[i]._promise].state # "pending" =>
               promises'[queries[i]._promise] = promises[queries[i]._promise]]_vars

\* a settled query that was called again and cloned after it settled: both
\* callers hold the error it was settled with
C34_Witness ==
  \E q \in live, c \in live :
    /\ origin[c] = q
    /\ queries[q]._executed
    /\ Outcome(q) = Rejected("err")
    /\ Cardinality(CallsOn(q)) >= 2
    /\ \A k \in CallsOn(q) : calls[k].out = Rejected("err")

-----------------------------------------------------------------------------
(* Properties of the MySQL grammar and translator (SpecDialect) *)

RECURSIVE DoubleEach(_)
\* the characters with every backslash doubled
DoubleEach(chars) ==
  IF chars = <<>> THEN <<>>
  ELSE (IF Head(chars) = Backslash THEN <<Backslash, Backslash>> ELSE <<Head(chars)>>)
       \o DoubleEach(Tail(chars))

Backslashes(chars) == Cardinality({i \in 1..Len(chars) : chars[i] = Backslash})

\* C35: escape hands the base escape a string with every backslash of the
\* given string doubled, and hands it a value that is no string as it is.
C35_EveryBackslashDoubled ==
  mysql.escaped.called =>
    mysql.escaped.result =
      Grammar_escape(IF isString(mysql.escaped.value)
                     THEN [mysql.escaped.value EXCEPT !.chars = DoubleEach(@)]
                     ELSE mysql.escaped.value)

\* what does hold: strings with at most one backslash have it doubled, other
\* values are handed on as they are
C35_OneBackslashDoubled ==
  (mysql.escaped.called /\ Backslashes(mysql.escaped.value.chars) <= 1) =>
    mysql.escaped.result =
      Grammar_escape(IF isString(mysql.escaped.value)
                     THEN [mysql.escaped.value EXCEPT !.chars = DoubleEach(@)]
                     ELSE mysql.escaped.value)

\* MySQL's WEEKDAY(): 0 = Monday, ..., 6 = Sunday
WeekdayInMySQL(day) ==
  CASE day = "monday" -> 0 [] day = "tuesday" -> 1 [] day = "wednesday" -> 2
    [] day = "thursday" -> 3 [] day = "friday" -> 4 [] day = "saturday" -> 5
    [] day = "sunday" -> 6

DaysOfWeek == {Weekdays[i] : i \in 1..Len(Weekdays)}

\* C36: the weekday condition renders WEEKDAY(column) = ? and binds
\* (n + 6) mod 7 for the parsed number n of the day (Sunday = 0), which is the
\* number MySQL's WEEKDAY gives the day; the days are bound to the seven
\* numbers 0..6, each to its own.
C36_WeekdayShifted ==
  /\ mysql.weekday.called =>
       LET r == mysql.weekday.rendered
           n == parseWeekdayToInt(mysql.weekday.day)
       IN /\ r.fragment = <<"WEEKDAY(", mysql.weekday.column, ")", "=", "?">>
          /\ n \in 0..6
          /\ r.arguments = <<(n + 6) % 7>>
          /\ r.arguments = <<WeekdayInMySQL(mysql.weekday.day)>>
  /\ \A a \in DaysOfWeek, b \in DaysOfWeek :
       renderWeekday("title", a).arguments = renderWeekday("title", b).arguments => a = b
  /\ {renderWeekday("title", d).arguments[1] : d \in DaysOfWeek} = 0..6

\* a Sunday condition was rendered: 6 is bound
C36_Witness ==
  /\ mysql.weekday.called
  /\ mysql.weekday.day = "sunday"
  /\ mysql.weekday.rendered.arguments = <<6>>

\* a Monday condition was rendered: 0 is bound
C36_WitnessMonday ==
  /\ mysql.weekday.called
  /\ mysql.weekday.day = "monday"
  /\ mysql.weekday.rendered.arguments = <<0>>

C37_WitnessGiven ==
  /\ mysql.decimal.called
  /\ mysql.decimal.given = Options(Given(2), Given(1))
  /\ mysql.decimal.type.argument = Options(Given(2), Given(1))

-----------------------------------------------------------------------------
(* Properties of a relation's definition (SpecDefine) *)

\* C38: a relation's related model is the model class given as the argument
\* after the attribute details; else the model looked up under the string
\* given there; else the model looked up under the singular of the relation's
\* name. The options are the argument after the one that named the model (the
\* first argument when none did), or an empty object when there is none.
C38_RelatedModelPrecedence ==
  members.pc = "initialized" =>
    LET a == members.arguments
        r == members.relation
        classFirst == Len(a) >= 1 /\ a[1].kind = "class"
        stringFirst == Len(a) >= 1 /\ a[1].kind = "string"
        k == IF classFirst \/ stringFirst THEN 2 ELSE 1
    IN /\ r._name = members.name
       /\ classFirst => r._relatedModel = a[1].class
       /\ stringFirst => r._relatedModel = [class |-> a[1].string]
       /\ (~classFirst /\ ~stringFirst) =>
            r._relatedModel = [class |-> [members.name EXCEPT !.plural = FALSE]]
       /\ IF Len(a) >= k /\ a[k].kind # "undefined"
          THEN r._options.kind = a[k].kind /\ r._options = ValueOf(a[k])
          ELSE r._options = EmptyObject

\* a relation named users defined without arguments: the model user, empty
\* options
C38_Witness ==
  /\ members.pc = "initialized"
  /\ members.name = pluralize(Str("plain", <<"user">>))
  /\ members.arguments = <<>>
  /\ members.relation._relatedModel = db_model(Str("plain", <<"user">>))
  /\ members.relation._options = EmptyObject

\* a relation named author defined with a model name and options
C38_WitnessString ==
  /\ members.pc = "initialized"
  /\ members.name = Str("plain", <<"author">>)
  /\ members.arguments = <<StringArgument(Str("plain", <<"user">>)), ObjectArgument("options")>>
  /\ members.relation._relatedModel = db_model(Str("plain", <<"user">>))
  /\ members.relation._options = ValueOf(ObjectArgument("options"))

\* a relation defined with options only
C38_WitnessOptions ==
  /\ members.pc = "initialized"
  /\ members.arguments = <<ObjectArgument("options")>>
  /\ members.relation._relatedModel = db_model(Str("plain", <<"author">>))
  /\ members.relation._options = ValueOf(ObjectArgument("options"))

=============================================================================
